---- MODULE Spec2Model ----
(***************************************************************************)
(* rafctl: the transcript parser (src/core/transcript.rs) and the live     *)
(* session monitor (src/cli/watch.rs) as state machines.                   *)
(*                                                                         *)
(* SpecParse  : parse_transcript, one step per line of the file, then the  *)
(*              drain of the still-open calls and the return.              *)
(* SpecWatch  : watch_session_file beside a writer that appends to the     *)
(*              watched file, byte by byte where it matters.               *)
(* SpecReplay : read_existing_entries over a file, then read_new_lines     *)
(*              over the same lines again.                                 *)
(***************************************************************************)
EXTENDS Integers, Sequences, FiniteSets, TLC

VARIABLES
    \* ---- parse_transcript (transcript.rs:92-260)
    consumed,        \* the lines reader.lines() has yielded so far
    summary,         \* SessionSummary under construction
    tool_calls,      \* Vec<ToolCall>
    agent_calls,     \* Vec<AgentCall>
    tool_breakdown,  \* HashMap<String, u64>
    pending_tools,   \* HashMap<String, ToolCall>
    ppc,             \* "reading" (in the for loop) or "done" (returned)
    result,          \* Option<SessionDetail> returned
    \* ---- watch_session_file (watch.rs:78-170)
    file,            \* the bytes of the watched file
    crlf,            \* whether the writer ends its lines with "\r\n"
    offset,          \* the offset of the open file description (shared by try_clone)
    seen_ids,        \* HashSet<String>
    emitted,         \* what print_entry has written to stdout, in order
    chan,            \* events sent on the channel and not yet received
    wpc,             \* "start", "booted" (initial_pos set), "created" (watcher built),
                     \* "watching" (in watch_loop), "failed" (Err returned),
                     \* "stopped" (no file is watched); "printing" in SpecPrint
    replays,         \* SpecReplay: how often the lines were fed again
    io_error,        \* the watched file can no longer be read: every read fails
    \* ---- one call of a function of transcript.rs or watch.rs
    fn_args,         \* the arguments of the call
    fn_ret,          \* None until the call has returned, then Some(what it returned)
    \* ---- the rafctl commands on ~/.rafctl (cli/profile.rs, cli/config.rs)
    profiles,        \* ~/.rafctl/profiles: the stored Profile of every directory
                     \* that holds a meta.yaml
    config,          \* ~/.rafctl/config.yaml as load_global_config reads it
    cli_out,         \* the last command, its Result and what it printed
    added,           \* history: the names added and not removed afterwards
    \* ---- rafctl run in OAuth mode (cli/run.rs:147-183)
    target_os,       \* the cfg(target_os) the binary was built for
    launch,          \* per rafctl process under way: where it is in handle_run,
                     \* launch_with_oauth or handle_set_key
    oauth_lock,      \* the process that holds the flock on oauth.lock, if any
    lock_file,       \* the content of ~/.rafctl/oauth.lock
    system_token     \* the token in Claude Code's keychain entry

parseVars == <<consumed, summary, tool_calls, agent_calls, tool_breakdown,
               pending_tools, ppc, result>>

watchVars == <<file, crlf, offset, seen_ids, emitted, chan, wpc, replays, io_error>>

fnVars == <<fn_args, fn_ret>>

cliVars == <<profiles, config, cli_out, added>>

launchVars == <<target_os, launch, oauth_lock, lock_file, system_token>>

vars == <<parseVars, watchVars, fnVars, cliVars, launchVars>>

----------------------------------------------------------------------------
(* Bounds *)

\* number of lines of the transcript file
MaxLines == 3

\* number of bytes of the watched file
MaxFileBytes == 9

\* number of undelivered notifications
MaxChan == 2

\* number of lines of the file that is bootstrapped and fed again
MaxBootLines == 3

\* how often the bootstrapped lines are fed again
MaxReplays == 2

----------------------------------------------------------------------------
(* Option<T>: None is the empty sequence, Some(x) the one-element sequence *)

None == <<>>
Some(x) == <<x>>
IsSome(o) == o # <<>>
Unwrap(o) == o[1]

\* the sequences over S without repetition that list all of S: the orders in
\* which a HashMap with domain S can be iterated
Orders(S) ==
    {s \in [1..Cardinality(S) -> S] : \A i, j \in 1..Cardinality(S) : i # j => s[i] # s[j]}

\* a map with no key
EmptyMap == [k \in {} |-> 0]

----------------------------------------------------------------------------
(* Strings that are cut or split are sequences of characters *)

Str3Dots == <<".", ".", ".">>

Take(s, n) == IF n >= Len(s) THEN s ELSE SubSeq(s, 1, n)

SaturatingSub(a, b) == IF a >= b THEN a - b ELSE 0

\* transcript.rs truncate_str
truncate_str(s, max_len) ==
    IF Len(s) <= max_len
    THEN s
    ELSE Take(s, SaturatingSub(max_len, 3)) \o Str3Dots

\* the segments of a path between "/" characters, in order (empty ones kept)
RECURSIVE SplitSlash(_)
SplitSlash(p) ==
    IF p = <<>> THEN << <<>> >>
    ELSE LET rest == SplitSlash(Tail(p)) IN
         IF Head(p) = "/"
         THEN << <<>> >> \o rest
         ELSE << <<Head(p)>> \o Head(rest) >> \o Tail(rest)

\* std::path::Path::file_name on Unix: the last component, unless the path has
\* none or ends in ".."; empty segments and "." segments are no components
file_name(p) ==
    LET segs == SelectSeq(SplitSlash(p), LAMBDA c : c # <<>> /\ c # <<".">>) IN
    IF segs = <<>> \/ segs[Len(segs)] = <<".", ".">>
    THEN None
    ELSE Some(segs[Len(segs)])

\* transcript.rs truncate_path
truncate_path(path) ==
    IF IsSome(file_name(path)) THEN Unwrap(file_name(path)) ELSE truncate_str(path, 30)

\* serde_json Value::get on an object whose values are strings
Get(obj, key) == IF key \in DOMAIN obj THEN Some(obj[key]) ELSE None

\* Option::or_else
OrElse(a, b) == IF IsSome(a) THEN a ELSE b

\* Option::map with truncate_path, with |s| truncate_str(s, 40), with |s| truncate_str(s, 30)
MapTruncatePath(o) == IF IsSome(o) THEN Some(truncate_path(Unwrap(o))) ELSE None
MapTruncate40(o) == IF IsSome(o) THEN Some(truncate_str(Unwrap(o), 40)) ELSE None
MapTruncate30(o) == IF IsSome(o) THEN Some(truncate_str(Unwrap(o), 30)) ELSE None

\* transcript.rs extract_tool_target
extract_tool_target(tool_name, input) ==
    IF input = None THEN None
    ELSE LET i == Unwrap(input) IN
         CASE tool_name \in {"Read", "Write", "Edit"} ->
                 MapTruncatePath(
                    OrElse(Get(i, "file_path"), OrElse(Get(i, "filePath"), Get(i, "path"))))
           [] tool_name \in {"Glob", "Grep"} -> MapTruncate40(Get(i, "pattern"))
           [] tool_name = "Bash" -> MapTruncate30(Get(i, "command"))
           [] tool_name = "Task" -> MapTruncate40(Get(i, "description"))
           [] OTHER -> None

----------------------------------------------------------------------------
(* Timestamps: RFC 3339 strings; an instant is its distance in milliseconds *)
(* from 2025-01-01T00:00:00Z                                               *)

\* chrono DateTime::parse_from_rfc3339(..).ok() followed by with_timezone(&Utc)
parse_from_rfc3339(s) ==
    CASE s = "2025-01-01T00:00:00Z" -> Some(0)
      [] s = "2025-01-01T00:00:01Z" -> Some(1000)
      [] s = "2025-01-01T01:00:01+01:00" -> Some(1000)
      [] s = "2025-01-01T00:00:02.500Z" -> Some(2500)
      [] OTHER -> None

\* transcript.rs:130-134
EntryTimestamp(entry) ==
    IF entry.timestamp = None THEN None ELSE parse_from_rfc3339(Unwrap(entry.timestamp))

----------------------------------------------------------------------------
(* Lines of a transcript file, as serde_json sees them *)

\* a line that is a JSON object: the recognised keys, each absent (None) or present
Obj(type, timestamp, sessionId, cwd, gitBranch, message) ==
    [kind |-> "object", type |-> type, timestamp |-> timestamp, sessionId |-> sessionId,
     cwd |-> cwd, gitBranch |-> gitBranch, message |-> message]

\* "message": {"model": .., "content": ..}
Msg(model, content) == Some([model |-> model, content |-> content])

\* "content": [ blocks ]
ContentArr(blocks) == Some([array |-> TRUE, blocks |-> blocks])

\* "content": "plain text"
ContentStr == Some([array |-> FALSE, blocks |-> <<>>])

\* {"type":"tool_use","id":..,"name":..,"input":..}
ToolUse(id, name, input) ==
    [type |-> Some("tool_use"), id |-> id, name |-> name, input |-> input,
     tool_use_id |-> None, is_error |-> None]

\* {"type":"tool_result","tool_use_id":..,"is_error":..}
ToolResult(tool_use_id, is_error) ==
    [type |-> Some("tool_result"), id |-> None, name |-> None, input |-> None,
     tool_use_id |-> tool_use_id, is_error |-> is_error]

\* {"type":"text","text":".."}
TextBlock ==
    [type |-> Some("text"), id |-> None, name |-> None, input |-> None,
     tool_use_id |-> None, is_error |-> None]

\* a line of white space only
BlankLine ==
    [kind |-> "blank", type |-> None, timestamp |-> None, sessionId |-> None,
     cwd |-> None, gitBranch |-> None, message |-> None]

\* a line serde_json::from_str::<TranscriptEntry> rejects: broken JSON, or a
\* recognised key holding a value of the wrong JSON type
MalformedLine ==
    [kind |-> "malformed", type |-> None, timestamp |-> None, sessionId |-> None,
     cwd |-> None, gitBranch |-> None, message |-> None]

\* {} or {"foo": 1}: an object with none of the recognised keys
EmptyObject == Obj(None, None, None, None, None, None)

T0 == "2025-01-01T00:00:00Z"
T1000 == "2025-01-01T00:00:01Z"
T1000Plus1h == "2025-01-01T01:00:01+01:00"
T2500 == "2025-01-01T00:00:02.500Z"

PathMainRs == <<"/", "a", "/", "b", "/", "m", "a", "i", "n", ".", "r", "s">>
PathLibRs == <<"s", "r", "c", "/", "l", "i", "b", ".", "r", "s">>
CmdLong ==
    <<"c", "a", "r", "g", "o", " ", "b", "u", "i", "l", "d", " ", "-", "-", "r", "e", "l",
      "e", "a", "s", "e", " ", "-", "-", "a", "l", "l", "-", "f", "e", "a", "t", "u", "r",
      "e", "s">>
PatFnMain == <<"f", "n", " ", "m", "a", "i", "n">>
DescFix == <<"f", "i", "x">>
TypeExplore == <<"E", "x", "p", "l", "o", "r", "e">>

UserHello == Obj(Some("user"), Some(T0), Some("s1"), Some("/a"), Some("main"),
                 Msg(None, ContentStr))
UserOther == Obj(Some("user"), Some(T1000Plus1h), Some("s2"), Some("/b"), Some("dev"), None)
EmptyFields == Obj(Some("summary"), None, Some(""), Some(""), Some(""), None)
BadTs == Obj(Some("assistant"), Some("yesterday"), None, None, None,
             Msg(Some("opus"), ContentArr(<<TextBlock>>)))
UseRead == Obj(Some("assistant"), Some(T0), Some("s1"), None, None,
               Msg(Some("sonnet"),
                   ContentArr(<<ToolUse(Some("t1"), Some("Read"),
                                        Some([file_path |-> PathMainRs]))>>)))
UseReadLate == Obj(Some("assistant"), Some(T2500), None, None, None,
                   Msg(None,
                       ContentArr(<<ToolUse(Some("t1"), Some("Edit"),
                                            Some([path |-> PathLibRs]))>>)))
ResultOk == Obj(Some("user"), Some(T2500), None, None, None,
                Msg(None, ContentArr(<<ToolResult(Some("t1"), Some(FALSE))>>)))
ResultErr == Obj(Some("user"), Some(T1000), None, None, None,
                 Msg(None, ContentArr(<<ToolResult(Some("t1"), Some(TRUE))>>)))
UseBashNoTs == Obj(Some("assistant"), None, None, None, None,
                   Msg(None,
                       ContentArr(<<TextBlock,
                                    ToolUse(Some("t2"), Some("Bash"),
                                            Some([command |-> CmdLong]))>>)))
ResultT2 == Obj(Some("user"), Some(T1000), None, None, None,
                Msg(None, ContentArr(<<ToolResult(Some("t2"), None)>>)))
UseTask == Obj(Some("assistant"), Some(T1000), None, None, None,
               Msg(None,
                   ContentArr(<<ToolUse(Some("t3"), Some("Task"),
                                        Some([description |-> DescFix,
                                              subagent_type |-> TypeExplore]))>>)))
ResultTask == Obj(Some("user"), Some(T2500), None, None, None,
                  Msg(None, ContentArr(<<ToolResult(Some("t3"), Some(TRUE))>>)))
UseAndResult == Obj(Some("assistant"), Some(T1000), None, None, None,
                    Msg(None,
                        ContentArr(<<ToolUse(Some("t2"), Some("Grep"),
                                             Some([pattern |-> PatFnMain])),
                                     ToolResult(Some("t2"), Some(TRUE))>>)))
OtherWithTool == Obj(None, None, None, None, None,
                     Msg(None, ContentArr(<<ToolUse(Some("t4"), Some("Glob"), None)>>)))

UseNoId == Obj(Some("assistant"), Some(T1000), None, None, None,
               Msg(None, ContentArr(<<ToolUse(None, None, None)>>)))

\* the lines a transcript is made of in this model
Lines ==
    {BlankLine, MalformedLine, EmptyObject, UserHello, UserOther, EmptyFields, BadTs,
     UseRead, UseReadLate, ResultOk, ResultErr, UseBashNoTs, ResultT2, UseTask,
     ResultTask, UseAndResult, OtherWithTool, UseNoId}

----------------------------------------------------------------------------
(* parse_transcript *)

\* an insert that keeps the value already stored under the key
MapInsert_KeepsExisting(m, k, v) ==
    [x \in DOMAIN m \cup {k} |-> IF x \in DOMAIN m THEN m[x] ELSE v]

\* HashMap::insert
MapInsert(m, k, v) == [x \in DOMAIN m \cup {k} |-> IF x = k THEN v ELSE m[x]]
MapRemove(m, k) == [x \in DOMAIN m \ {k} |-> m[x]]

\* Option<String>::unwrap_or_default
UnwrapOrDefault(o) == IF IsSome(o) THEN Unwrap(o) ELSE ""

\* the difference kept as it is, negative or not
ClampNonNeg_KeepsSign(d) == d

\* i64::max(0) as u64
ClampNonNeg(d) == IF d > 0 THEN d ELSE 0

\* transcript.rs:96-113
InitSummary ==
    [session_id |-> "", project_path |-> None, cwd |-> None, git_branch |-> None,
     started_at |-> None, ended_at |-> None, message_count |-> 0, tool_calls |-> 0,
     tool_errors |-> 0, agent_calls |-> 0, model |-> None]

\* ObserveToolUse with the histogram entry set to 1 instead of incremented
ObserveToolUse_HistogramSetToOne(acc, block, timestamp) ==
    LET name == UnwrapOrDefault(block.name)
        id == UnwrapOrDefault(block.id)
    IN  IF name = "Task"
        THEN [acc EXCEPT
                !.summary.agent_calls = @ + 1,
                !.agent_calls = Append(@, [subagent_type |-> None, description |-> None,
                                           timestamp |-> timestamp])]
        ELSE [acc EXCEPT
                !.summary.tool_calls = @ + 1,
                !.tool_breakdown = MapInsert(@, name, 1),
                !.pending_tools =
                    MapInsert(@, id, [id |-> id, name |-> name,
                                      target |-> extract_tool_target(name, block.input),
                                      timestamp |-> timestamp, is_error |-> FALSE,
                                      duration_ms |-> None])]

\* ObserveToolUse with the histogram incremented before the test for "Task"
ObserveToolUse_TaskInHistogram(acc, block, timestamp) ==
    LET name == UnwrapOrDefault(block.name)
        id == UnwrapOrDefault(block.id)
        target == extract_tool_target(name, block.input)
        field(k) == IF IsSome(block.input) THEN Get(Unwrap(block.input), k) ELSE None
        counted == [acc EXCEPT
                      !.tool_breakdown =
                          MapInsert(@, name, (IF name \in DOMAIN @ THEN @[name] ELSE 0) + 1)]
    IN  IF name = "Task"
        THEN [counted EXCEPT
                !.summary.agent_calls = @ + 1,
                !.agent_calls = Append(@, [subagent_type |-> field("subagent_type"),
                                           description |-> field("description"),
                                           timestamp |-> timestamp])]
        ELSE [counted EXCEPT
                !.summary.tool_calls = @ + 1,
                !.pending_tools =
                    MapInsert(@, id, [id |-> id, name |-> name, target |-> target,
                                      timestamp |-> timestamp, is_error |-> FALSE,
                                      duration_ms |-> None])]

\* the Some("tool_use") arm, transcript.rs:172-213
ObserveToolUse(acc, block, timestamp) ==
    LET name == UnwrapOrDefault(block.name)
        id == UnwrapOrDefault(block.id)
        target == extract_tool_target(name, block.input)
        field(k) == IF IsSome(block.input) THEN Get(Unwrap(block.input), k) ELSE None
    IN  IF name = "Task"
        THEN [acc EXCEPT
                !.summary.agent_calls = @ + 1,
                !.agent_calls = Append(@, [subagent_type |-> field("subagent_type"),
                                           description |-> field("description"),
                                           timestamp |-> timestamp])]
        ELSE [acc EXCEPT
                !.summary.tool_calls = @ + 1,
                !.tool_breakdown =
                    MapInsert(@, name, (IF name \in DOMAIN @ THEN @[name] ELSE 0) + 1),
                !.pending_tools =
                    MapInsert(@, id, [id |-> id, name |-> name, target |-> target,
                                      timestamp |-> timestamp, is_error |-> FALSE,
                                      duration_ms |-> None])]

\* ObserveToolResult without `tool_call.is_error = is_error`
ObserveToolResult_FlagNotStored(acc, block, timestamp) ==
    IF IsSome(block.tool_use_id) /\ Unwrap(block.tool_use_id) \in DOMAIN acc.pending_tools
    THEN LET tool_id == Unwrap(block.tool_use_id)
             open == acc.pending_tools[tool_id]
             is_error == IF IsSome(block.is_error) THEN Unwrap(block.is_error) ELSE FALSE
             duration == IF IsSome(open.timestamp) /\ IsSome(timestamp)
                         THEN Some(ClampNonNeg(Unwrap(timestamp) - Unwrap(open.timestamp)))
                         ELSE None
         IN  [acc EXCEPT
                !.pending_tools = MapRemove(@, tool_id),
                !.summary.tool_errors = IF is_error THEN @ + 1 ELSE @,
                !.tool_calls = Append(@, [open EXCEPT !.duration_ms = duration])]
    ELSE acc

\* ObserveToolResult with the error counted before the lookup in the open map
ObserveToolResult_CountsUnmatched(acc, block, timestamp) ==
    LET is_error == IF IsSome(block.is_error) THEN Unwrap(block.is_error) ELSE FALSE
        counted == [acc EXCEPT !.summary.tool_errors = IF is_error THEN @ + 1 ELSE @]
    IN  IF IsSome(block.tool_use_id) /\ Unwrap(block.tool_use_id) \in DOMAIN acc.pending_tools
        THEN LET tool_id == Unwrap(block.tool_use_id)
                 open == acc.pending_tools[tool_id]
                 duration == IF IsSome(open.timestamp) /\ IsSome(timestamp)
                             THEN Some(ClampNonNeg(Unwrap(timestamp) - Unwrap(open.timestamp)))
                             ELSE None
             IN  [counted EXCEPT
                    !.pending_tools = MapRemove(@, tool_id),
                    !.tool_calls = Append(@, [open EXCEPT !.is_error = is_error,
                                                          !.duration_ms = duration])]
        ELSE counted

\* ObserveToolResult without `summary.tool_errors += 1`
ObserveToolResult_ErrorNotCounted(acc, block, timestamp) ==
    IF IsSome(block.tool_use_id) /\ Unwrap(block.tool_use_id) \in DOMAIN acc.pending_tools
    THEN LET tool_id == Unwrap(block.tool_use_id)
             open == acc.pending_tools[tool_id]
             is_error == IF IsSome(block.is_error) THEN Unwrap(block.is_error) ELSE FALSE
             duration == IF IsSome(open.timestamp) /\ IsSome(timestamp)
                         THEN Some(ClampNonNeg(Unwrap(timestamp) - Unwrap(open.timestamp)))
                         ELSE None
         IN  [acc EXCEPT
                !.pending_tools = MapRemove(@, tool_id),
                !.tool_calls = Append(@, [open EXCEPT !.is_error = is_error,
                                                      !.duration_ms = duration])]
    ELSE acc

\* the Some("tool_result") arm, transcript.rs:214-237
ObserveToolResult(acc, block, timestamp) ==
    IF IsSome(block.tool_use_id) /\ Unwrap(block.tool_use_id) \in DOMAIN acc.pending_tools
    THEN LET tool_id == Unwrap(block.tool_use_id)
             open == acc.pending_tools[tool_id]
             is_error == IF IsSome(block.is_error) THEN Unwrap(block.is_error) ELSE FALSE
             duration == IF IsSome(open.timestamp) /\ IsSome(timestamp)
                         THEN Some(ClampNonNeg(Unwrap(timestamp) - Unwrap(open.timestamp)))
                         ELSE None
         IN  [acc EXCEPT
                !.pending_tools = MapRemove(@, tool_id),
                !.summary.tool_errors = IF is_error THEN @ + 1 ELSE @,
                !.tool_calls = Append(@, [open EXCEPT !.is_error = is_error,
                                                      !.duration_ms = duration])]
    ELSE acc

\* the match on a block's type, transcript.rs:169-239
ProcessBlock(acc, block, timestamp) ==
    CASE block.type = Some("tool_use") -> ObserveToolUse(acc, block, timestamp)
      [] block.type = Some("tool_result") -> ObserveToolResult(acc, block, timestamp)
      [] OTHER -> acc

\* for block in blocks, transcript.rs:168-240
RECURSIVE ProcessBlocks(_, _, _)
ProcessBlocks(acc, blocks, timestamp) ==
    IF blocks = <<>> THEN acc
    ELSE ProcessBlocks(ProcessBlock(acc, Head(blocks), timestamp), Tail(blocks), timestamp)

\* transcript.rs:136-159: the summary fields a record sets
UpdateSummary(s, entry, timestamp) ==
    [s EXCEPT
        !.session_id = IF IsSome(entry.sessionId) /\ s.session_id = ""
                       THEN Unwrap(entry.sessionId) ELSE @,
        !.cwd = IF @ = None THEN entry.cwd ELSE @,
        !.git_branch = IF @ = None THEN entry.gitBranch ELSE @,
        !.started_at = IF @ = None THEN timestamp ELSE @,
        !.ended_at = timestamp,
        !.message_count = IF UnwrapOrDefault(entry.type) \in {"user", "assistant"}
                          THEN @ + 1 ELSE @]

\* transcript.rs:161-243: the message of a record
ProcessMessage(acc, entry, timestamp) ==
    IF entry.message = None THEN acc
    ELSE LET msg == Unwrap(entry.message)
             a1 == [acc EXCEPT !.summary.model = IF @ = None THEN msg.model ELSE @]
         IN  IF IsSome(msg.content) /\ Unwrap(msg.content).array
             THEN ProcessBlocks(a1, Unwrap(msg.content).blocks, timestamp)
             ELSE a1

\* transcript.rs:130-243: one decoded record
ProcessEntry(acc, entry) ==
    LET timestamp == EntryTimestamp(entry) IN
    ProcessMessage([acc EXCEPT !.summary = UpdateSummary(@, entry, timestamp)],
                   entry, timestamp)

\* transcript.rs:115-128: blank lines and lines serde rejects are skipped
ProcessLine(acc, line) ==
    IF line.kind = "object" THEN ProcessEntry(acc, line) ELSE acc

\* the accumulators of the loop, as one record
Acc ==
    [summary |-> summary, tool_calls |-> tool_calls, agent_calls |-> agent_calls,
     tool_breakdown |-> tool_breakdown, pending_tools |-> pending_tools]

InitAcc ==
    [summary |-> InitSummary, tool_calls |-> <<>>, agent_calls |-> <<>>,
     tool_breakdown |-> EmptyMap, pending_tools |-> EmptyMap]

\* Drain that discards the calls still open
Drain_DropsOpen(calls, pending, order) == calls

\* transcript.rs:246-248: the open calls pushed in the order the map yields them
Drain(calls, pending, order) ==
    calls \o [i \in 1..Len(order) |-> pending[order[i]]]

\* Return without the check of the session id
Return_Always(acc, calls) ==
    Some([summary |-> acc.summary, tool_calls |-> calls,
          agent_calls |-> acc.agent_calls, tool_breakdown |-> acc.tool_breakdown])

\* transcript.rs:250-259
Return(acc, calls) ==
    IF acc.summary.session_id = "" THEN None
    ELSE Some([summary |-> acc.summary, tool_calls |-> calls,
               agent_calls |-> acc.agent_calls, tool_breakdown |-> acc.tool_breakdown])

InitParse ==
    /\ consumed = <<>>
    /\ summary = InitSummary
    /\ tool_calls = <<>>
    /\ agent_calls = <<>>
    /\ tool_breakdown = EmptyMap
    /\ pending_tools = EmptyMap
    /\ ppc = "reading"
    /\ result = None

\* one iteration of `for line in reader.lines()`
ReadLine ==
    /\ ppc = "reading"
    /\ Len(consumed) < MaxLines
    /\ \E line \in Lines :
        LET n == ProcessLine(Acc, line) IN
        /\ consumed' = Append(consumed, line)
        /\ summary' = n.summary
        /\ tool_calls' = n.tool_calls
        /\ agent_calls' = n.agent_calls
        /\ tool_breakdown' = n.tool_breakdown
        /\ pending_tools' = n.pending_tools
    /\ UNCHANGED <<ppc, result>>
    /\ UNCHANGED watchVars
    /\ UNCHANGED fnVars
    /\ UNCHANGED cliVars
    /\ UNCHANGED launchVars

\* end of file: drain the open calls and return
Finish ==
    /\ ppc = "reading"
    /\ \E order \in Orders(DOMAIN pending_tools) :
        /\ tool_calls' = Drain(tool_calls, pending_tools, order)
        /\ result' = Return(Acc, tool_calls')
    /\ pending_tools' = EmptyMap
    /\ ppc' = "done"
    /\ UNCHANGED <<consumed, summary, agent_calls, tool_breakdown>>
    /\ UNCHANGED watchVars
    /\ UNCHANGED fnVars
    /\ UNCHANGED cliVars
    /\ UNCHANGED launchVars

NextParse == ReadLine \/ Finish

\* no file is watched
WatchIdle ==
    /\ file = <<>>
    /\ crlf = FALSE
    /\ offset = 0
    /\ seen_ids = {}
    /\ emitted = <<>>
    /\ chan = 0
    /\ wpc = "stopped"
    /\ replays = 0
    /\ io_error = FALSE

\* no single function is being called
FnIdle ==
    /\ fn_args = None
    /\ fn_ret = None

\* no rafctl command has run: ~/.rafctl does not exist
CliIdle ==
    /\ profiles = <<>>
    /\ config = [default_profile |-> None, last_used_profile |-> None]
    /\ cli_out = None
    /\ added = {}

\* no rafctl run is in progress
LaunchIdle ==
    /\ target_os = "macos"
    /\ launch = <<>>
    /\ oauth_lock = None
    /\ lock_file = None
    /\ system_token = None

\* parse_transcript entered, nothing watched
InitParseOnly == InitParse /\ WatchIdle /\ FnIdle /\ CliIdle /\ LaunchIdle

SpecParse == InitParseOnly /\ [][NextParse]_vars

\* the loop of parse_transcript over a whole sequence of lines
RECURSIVE ParseLines(_, _)
ParseLines(acc, ls) ==
    IF ls = <<>> THEN acc ELSE ParseLines(ProcessLine(acc, Head(ls)), Tail(ls))

\* what parse_transcript can return once the loop has left acc: one value for
\* each order in which the map of open calls can be iterated
Returns(acc) ==
    {Return(acc, Drain(acc.tool_calls, acc.pending_tools, order)) :
        order \in Orders(DOMAIN acc.pending_tools)}

----------------------------------------------------------------------------
(* What the lines read so far contain *)

\* the content blocks parse_transcript walks for a line (none when the line is
\* skipped, has no message, or its content is not an array)
BlocksOf(line) ==
    IF line.kind = "object" /\ IsSome(line.message)
       /\ IsSome(Unwrap(line.message).content) /\ Unwrap(Unwrap(line.message).content).array
    THEN Unwrap(Unwrap(line.message).content).blocks
    ELSE <<>>

\* the positions <<line, block>> of the blocks of a sequence of lines
Positions(ls) == {p \in (1..Len(ls)) \X (1..2) : p[2] <= Len(BlocksOf(ls[p[1]]))}

BlockAt(ls, p) == BlocksOf(ls[p[1]])[p[2]]

Before(p, q) == p[1] < q[1] \/ (p[1] = q[1] /\ p[2] < q[2])

IsUse(b) == b.type = Some("tool_use")
IsToolUse(b) == IsUse(b) /\ UnwrapOrDefault(b.name) # "Task"
IsResult(b) == b.type = Some("tool_result") /\ IsSome(b.tool_use_id)

\* positions of the tool_use blocks carrying id x, of the tool_result blocks naming x
UsesOf(ls, x) == {p \in Positions(ls) : IsUse(BlockAt(ls, p)) /\ UnwrapOrDefault(BlockAt(ls, p).id) = x}
ResultsOf(ls, x) == {p \in Positions(ls) : IsResult(BlockAt(ls, p)) /\ BlockAt(ls, p).tool_use_id = Some(x)}

IdsIn(ls) ==
    {UnwrapOrDefault(BlockAt(ls, p).id) : p \in {q \in Positions(ls) : IsUse(BlockAt(ls, q))}}

\* the ToolCall entries of a list that carry id x
CallsWithId(calls, x) == {k \in 1..Len(calls) : calls[k].id = x}

RECURSIVE SumOver(_, _)
SumOver(m, S) ==
    IF S = {} THEN 0
    ELSE LET k == CHOOSE x \in S : TRUE IN m[k] + SumOver(m, S \ {k})

\* sum(tool_breakdown.values())
SumValues(m) == SumOver(m, DOMAIN m)

Last(s) == s[Len(s)]

\* this step is an iteration of the loop over the lines
StepReadsLine == ppc = "reading" /\ ppc' = "reading" /\ Len(consumed') = Len(consumed) + 1

----------------------------------------------------------------------------
(* C1: after every prefix of the lines, and in the SessionDetail returned,  *)
(* tool_calls equals the sum of the values of tool_breakdown, and           *)
(* tool_errors is at most tool_calls.                                       *)
C1_CountsAgree ==
    /\ summary.tool_calls = SumValues(tool_breakdown)
    /\ summary.tool_errors <= summary.tool_calls
    /\ IsSome(result) =>
          /\ Unwrap(result).summary.tool_calls = SumValues(Unwrap(result).tool_breakdown)
          /\ Unwrap(result).summary.tool_errors <= Unwrap(result).summary.tool_calls

\* two tools counted, one of them failed, and the result returned
C1_Witness ==
    /\ IsSome(result)
    /\ Cardinality(DOMAIN Unwrap(result).tool_breakdown) >= 2
    /\ Unwrap(result).summary.tool_errors >= 1
    /\ Unwrap(result).summary.tool_calls >= 2

\* C2, the list: an id used by exactly one tool_use block (not a sub-agent
\* dispatch) at time t1 and named by exactly one later tool_result block at
\* time t2 >= t1 has exactly one ToolCall in the result, with duration t2 - t1
\* and the is_error flag of the result block.
C2_OneClosedCall ==
    (ppc = "done" /\ IsSome(result)) =>
        \A x \in IdsIn(consumed) :
            LET uses == UsesOf(consumed, x)
                ress == ResultsOf(consumed, x)
                u == CHOOSE p \in uses : TRUE
                r == CHOOSE p \in ress : TRUE
                t1 == EntryTimestamp(consumed[u[1]])
                t2 == EntryTimestamp(consumed[r[1]])
                calls == Unwrap(result).tool_calls
            IN  ( /\ Cardinality(uses) = 1 /\ Cardinality(ress) = 1
                  /\ IsToolUse(BlockAt(consumed, u)) /\ Before(u, r)
                  /\ IsSome(t1) /\ IsSome(t2) /\ Unwrap(t2) >= Unwrap(t1) )
                =>
                ( /\ Cardinality(CallsWithId(calls, x)) = 1
                  /\ \A k \in CallsWithId(calls, x) :
                        /\ calls[k].duration_ms = Some(Unwrap(t2) - Unwrap(t1))
                        /\ calls[k].is_error =
                             (BlockAt(consumed, r).is_error = Some(TRUE)) )

\* C2, the counters: a record whose only block is a tool_use (not a sub-agent
\* dispatch) adds exactly 1 to tool_calls and nothing to tool_errors; a record
\* whose only block is the tool_result of an open call leaves tool_calls and
\* adds 1 to tool_errors exactly when its flag is true.
C2_CountersGrow ==
    StepReadsLine =>
        LET bs == BlocksOf(Last(consumed')) IN
        /\ (Len(bs) = 1 /\ IsToolUse(bs[1])) =>
              /\ summary'.tool_calls = summary.tool_calls + 1
              /\ summary'.tool_errors = summary.tool_errors
        /\ (Len(bs) = 1 /\ IsResult(bs[1]) /\ Unwrap(bs[1].tool_use_id) \in DOMAIN pending_tools) =>
              /\ summary'.tool_calls = summary.tool_calls
              /\ summary'.tool_errors =
                    summary.tool_errors + (IF bs[1].is_error = Some(TRUE) THEN 1 ELSE 0)

(* C2: a tool_use block with id X (not a sub-agent dispatch) seen at t1 and  *)
(* followed by the one tool_result block for X at t2 >= t1 gives exactly one *)
(* ToolCall with id X, duration t2 - t1 ms and the result's is_error flag;   *)
(* tool_calls grows by exactly 1, tool_errors by 1 only when the flag is set *)
C2_UseThenResult == []C2_OneClosedCall /\ [][C2_CountersGrow]_vars

\* UseRead at +0 ms closed by ResultOk at +2500 ms: one call, 2500 ms, no error
C2_Witness ==
    /\ ppc = "done" /\ IsSome(result)
    /\ consumed = <<UseRead, ResultOk>>
    /\ Len(Unwrap(result).tool_calls) = 1
    /\ Unwrap(result).tool_calls[1].duration_ms = Some(2500)
    /\ Unwrap(result).tool_calls[1].is_error = FALSE
    /\ Unwrap(result).summary.tool_calls = 1
    /\ Unwrap(result).summary.tool_errors = 0

\* the positions of the blocks that touch the open map under id x: the
\* tool_use blocks (not sub-agent dispatches) carrying x, the tool_result
\* blocks naming x
Mentions(ls, x) ==
    {p \in UsesOf(ls, x) : IsToolUse(BlockAt(ls, p))} \cup ResultsOf(ls, x)

LastOf(ps) == CHOOSE p \in ps : \A q \in ps : q = p \/ Before(q, p)

\* C3, unique ids: a tool_use block (not a sub-agent dispatch) whose id is
\* carried by no other tool_use block and is named by no later tool_result
\* block is in the returned list exactly once, with no duration and is_error
\* false.
C3_UniqueOpenAtEnd ==
    (ppc = "done" /\ IsSome(result)) =>
        \A x \in IdsIn(consumed) :
            LET uses == UsesOf(consumed, x)
                u == CHOOSE p \in uses : TRUE
                calls == Unwrap(result).tool_calls
            IN  ( /\ Cardinality(uses) = 1
                  /\ IsToolUse(BlockAt(consumed, u))
                  /\ \A r \in ResultsOf(consumed, x) : Before(r, u) )
                =>
                ( /\ Cardinality(CallsWithId(calls, x)) = 1
                  /\ \A k \in CallsWithId(calls, x) :
                        /\ calls[k].duration_ms = None
                        /\ calls[k].is_error = FALSE
                        /\ calls[k].name = UnwrapOrDefault(BlockAt(consumed, u).name)
                        /\ calls[k].timestamp = EntryTimestamp(consumed[u[1]]) )

\* C3, any ids: while the lines are read, the open map holds exactly the ids
\* whose last mention is a tool_use block, each with the name and time of that
\* block, no duration and is_error false.
C3_OpenMapHoldsLastUses ==
    ppc = "reading" =>
        /\ DOMAIN pending_tools \subseteq IdsIn(consumed)
        /\ \A x \in IdsIn(consumed) :
            LET ms == Mentions(consumed, x) IN
            /\ x \in DOMAIN pending_tools <=> (ms # {} /\ IsToolUse(BlockAt(consumed, LastOf(ms))))
            /\ x \in DOMAIN pending_tools =>
                  /\ pending_tools[x].id = x
                  /\ pending_tools[x].duration_ms = None
                  /\ pending_tools[x].is_error = FALSE
                  /\ pending_tools[x].name = UnwrapOrDefault(BlockAt(consumed, LastOf(ms)).name)
                  /\ pending_tools[x].timestamp = EntryTimestamp(consumed[LastOf(ms)[1]])

\* C3, the end of the stream: the list returned is the list of closed calls
\* followed by every entry of the open map, each once and as it stood.
C3_DrainKeepsOpen ==
    (ppc = "reading" /\ ppc' = "done" /\ IsSome(result')) =>
        LET calls == Unwrap(result').tool_calls IN
        /\ Len(calls) = Len(tool_calls) + Cardinality(DOMAIN pending_tools)
        /\ SubSeq(calls, 1, Len(tool_calls)) = tool_calls
        /\ \A x \in DOMAIN pending_tools :
              Cardinality({k \in (Len(tool_calls) + 1)..Len(calls) : calls[k] = pending_tools[x]}) = 1

(* C3: a tool_use block (not a sub-agent dispatch) whose id receives no      *)
(* matching tool_result before the end of the stream is not discarded: it is *)
(* in the returned list exactly once, with no duration and is_error false.   *)
(* (Of several tool_use blocks carrying one id the last one is the block     *)
(* that is open.)                                                            *)
C3_OpenCallSurvives ==
    []C3_UniqueOpenAtEnd /\ []C3_OpenMapHoldsLastUses /\ [][C3_DrainKeepsOpen]_vars

\* two calls still open at the end of the stream, both returned
C3_Witness ==
    /\ ppc = "done" /\ IsSome(result)
    /\ consumed = <<UseRead, UseBashNoTs>>
    /\ Len(Unwrap(result).tool_calls) = 2
    /\ \A k \in 1..2 : Unwrap(result).tool_calls[k].duration_ms = None

\* C4, record by record: a record whose blocks are tool_result blocks naming
\* ids that are not open leaves the lists, the counters and the maps alone.
C4_UnmatchedResultStep ==
    StepReadsLine =>
        LET bs == BlocksOf(Last(consumed')) IN
        ( /\ bs # <<>>
          /\ \A j \in 1..Len(bs) :
                IsResult(bs[j]) /\ Unwrap(bs[j].tool_use_id) \notin DOMAIN pending_tools )
        =>
        ( /\ tool_calls' = tool_calls
          /\ agent_calls' = agent_calls
          /\ tool_breakdown' = tool_breakdown
          /\ pending_tools' = pending_tools
          /\ summary'.tool_calls = summary.tool_calls
          /\ summary'.tool_errors = summary.tool_errors
          /\ summary'.agent_calls = summary.agent_calls )

\* tool_result blocks and record times to try on every state of the parse
ProbeResults ==
    {ToolResult(Some(x), e) : x \in {"t1", "t2", "t3", "t4", "t9", ""},
                              e \in {None, Some(TRUE), Some(FALSE)}}
ProbeTimes == {None, Some(0), Some(2500)}

\* C4, block by block: whatever has been read, a tool_result block naming an
\* id that is not open leaves every accumulator of the parse as it is.
C4_UnmatchedResultBlock ==
    \A b \in ProbeResults, ts \in ProbeTimes :
        Unwrap(b.tool_use_id) \notin DOMAIN pending_tools => ProcessBlock(Acc, b, ts) = Acc

(* C4: a tool_result block whose id is not open (never used, or closed by an *)
(* earlier result) adds and changes no ToolCall and leaves tool_calls,       *)
(* tool_errors, tool_breakdown and the open map as they were, whatever its   *)
(* is_error flag.                                                            *)
C4_UnmatchedResultDropped == []C4_UnmatchedResultBlock /\ [][C4_UnmatchedResultStep]_vars

\* t1 closed without error, then a second result for t1 with is_error true
C4_Witness ==
    /\ consumed = <<UseRead, ResultOk, ResultErr>>
    /\ summary.tool_errors = 0
    /\ Len(tool_calls) = 1
    /\ tool_calls[1].is_error = FALSE

\* a record (a line that decodes) carrying a non-empty session id
HasSessionId(line) ==
    line.kind = "object" /\ IsSome(line.sessionId) /\ Unwrap(line.sessionId) # ""

(* C5: parse_transcript returns None for the empty sequence and for every    *)
(* sequence in which no record carries a non-empty session id, and returns a *)
(* SessionDetail when some record carries one.                               *)
C5_NoneIffNoSessionId ==
    ppc = "done" =>
        (result = None <=> ~ \E i \in 1..Len(consumed) : HasSessionId(consumed[i]))

\* nothing returned although a record with an empty session id and a tool call
\* were read
C5_Witness ==
    /\ ppc = "done" /\ result = None
    /\ \E i \in 1..Len(consumed) : consumed[i] = EmptyFields
    /\ summary.tool_calls > 0
    /\ summary.message_count > 0

RemoveAt(s, i) == SubSeq(s, 1, i - 1) \o SubSeq(s, i + 1, Len(s))

\* the lines the Record Decoder is specified to reject: malformed JSON, and a
\* JSON object carrying none of the recognised fields
FailsToDecode(line) == line.kind = "malformed" \/ line = EmptyObject

(* C6: a line that fails to decode (malformed JSON, or an object with none   *)
(* of the recognised fields) is skipped: the SessionDetail returned is the   *)
(* one returned for the same transcript without that line.                   *)
C6_SkippedLineLeavesNoTrace ==
    ppc = "done" =>
        \A i \in 1..Len(consumed) :
            FailsToDecode(consumed[i]) =>
                result \in Returns(ParseLines(InitAcc, RemoveAt(consumed, i)))

\* the valid timestamps of the records of a sequence of lines, in order
RECURSIVE ValidStamps(_)
ValidStamps(ls) ==
    IF ls = <<>> THEN <<>>
    ELSE LET l == Head(ls) IN
         (IF l.kind = "object" /\ IsSome(EntryTimestamp(l)) THEN <<Unwrap(EntryTimestamp(l))>> ELSE <<>>)
         \o ValidStamps(Tail(ls))

(* C7: after any sequence of records started_at is the timestamp of the      *)
(* first record that carried one and ended_at the timestamp of the most      *)
(* recent record that carried one; a record without a valid timestamp        *)
(* changes neither.                                                          *)
C7_FirstAndLastTimestamp ==
    LET stamps == ValidStamps(consumed) IN
    /\ summary.started_at = (IF stamps = <<>> THEN None ELSE Some(Head(stamps)))
    /\ summary.ended_at = (IF stamps = <<>> THEN None ELSE Some(Last(stamps)))

\* what the records of a sequence of lines carry under a top-level key, line
\* by line (None for a line that is no record), and as model name
FieldValues(ls, key) ==
    [i \in 1..Len(ls) |-> IF ls[i].kind = "object" THEN ls[i][key] ELSE None]
ModelValues(ls) ==
    [i \in 1..Len(ls) |->
        IF ls[i].kind = "object" /\ IsSome(ls[i].message) THEN Unwrap(ls[i].message).model
        ELSE None]

\* the first value that is present and not the empty string, None without one
FirstNonEmpty(vals) ==
    LET idx == {i \in 1..Len(vals) : IsSome(vals[i]) /\ Unwrap(vals[i]) # ""}
        first == CHOOSE i \in idx : \A j \in idx : i <= j
    IN  IF idx = {} THEN None ELSE vals[first]

\* the first value that is present, None without one
FirstPresent(vals) ==
    LET idx == {i \in 1..Len(vals) : IsSome(vals[i])}
        first == CHOOSE i \in idx : \A j \in idx : i <= j
    IN  IF idx = {} THEN None ELSE vals[first]

(* C8: session_id, cwd and git_branch each end up equal to the first         *)
(* non-empty value a record carries, model to the first model name a record  *)
(* carries.                                                                  *)
C8_FirstNonEmptyWins ==
    LET sid == FirstNonEmpty(FieldValues(consumed, "sessionId"))
        cwd == FirstNonEmpty(FieldValues(consumed, "cwd"))
        branch == FirstNonEmpty(FieldValues(consumed, "gitBranch"))
    IN  /\ summary.session_id = UnwrapOrDefault(sid)
        /\ IsSome(cwd) => summary.cwd = cwd
        /\ IsSome(branch) => summary.git_branch = branch
        /\ summary.model = FirstPresent(ModelValues(consumed))

----------------------------------------------------------------------------
(* watch.rs: what is printed for a record *)

AsstResultErr == Obj(Some("assistant"), Some(T2500), None, None, None,
                     Msg(None, ContentArr(<<ToolResult(Some("t1"), Some(TRUE))>>)))

\* dt.with_timezone(&Local).format("%H:%M:%S"), the local zone being UTC
FormatLocal(ms) ==
    CASE ms = 0 -> "00:00:00"
      [] ms = 1000 -> "00:00:01"
      [] ms = 2500 -> "00:00:02"
      [] OTHER -> "??:??:??"

\* watch.rs truncate_path
watch_truncate_path(path) ==
    IF IsSome(file_name(path)) THEN Unwrap(file_name(path)) ELSE path

\* Option::map with watch.rs truncate_path
MapWatchTruncatePath(o) == IF IsSome(o) THEN Some(watch_truncate_path(Unwrap(o))) ELSE None

TodoLiteral == <<"u", "p", "d", "a", "t", "i", "n", "g", " ", "t", "o", "d", "o", "s">>

\* watch.rs extract_target
extract_target(tool_name, input) ==
    IF input = None THEN None
    ELSE LET i == Unwrap(input) IN
         CASE tool_name \in {"Read", "Write", "Edit"} ->
                 MapWatchTruncatePath(
                    OrElse(Get(i, "file_path"), OrElse(Get(i, "path"), Get(i, "filePath"))))
           [] tool_name \in {"Glob", "Grep"} -> MapTruncate30(Get(i, "pattern"))
           [] tool_name = "Bash" -> MapTruncate40(Get(i, "command"))
           [] tool_name = "Task" -> MapTruncate40(Get(i, "description"))
           [] tool_name = "TodoWrite" -> Some(TodoLiteral)
           [] OTHER -> None

\* the lines print_entry can write
UserMarker(time) == [kind |-> "user", time |-> time, name |-> "", target |-> None]
ToolMarker(time, name, target) == [kind |-> "tool", time |-> time, name |-> name, target |-> target]
ErrorMarker(time) == [kind |-> "error", time |-> time, name |-> "", target |-> None]

\* the is_error flag not looked at: a marker for every tool_result block
print_content_block_ErrorForEveryResult(timestamp, block) ==
    CASE block.type = Some("tool_use") ->
            LET tool_name == IF IsSome(block.name) THEN Unwrap(block.name) ELSE "Unknown" IN
            <<ToolMarker(timestamp, tool_name, extract_target(tool_name, block.input))>>
      [] block.type = Some("tool_result") -> <<ErrorMarker(timestamp)>>
      [] OTHER -> <<>>

\* watch.rs print_content_block: the lines printed for one block
print_content_block(timestamp, block) ==
    CASE block.type = Some("tool_use") ->
            LET tool_name == IF IsSome(block.name) THEN Unwrap(block.name) ELSE "Unknown" IN
            <<ToolMarker(timestamp, tool_name, extract_target(tool_name, block.input))>>
      [] block.type = Some("tool_result") ->
            IF block.is_error = Some(TRUE) THEN <<ErrorMarker(timestamp)>> ELSE <<>>
      [] OTHER -> <<>>

RECURSIVE PrintBlocks(_, _)
PrintBlocks(timestamp, blocks) ==
    IF blocks = <<>> THEN <<>>
    ELSE print_content_block(timestamp, Head(blocks)) \o PrintBlocks(timestamp, Tail(blocks))

\* watch.rs print_entry: the lines printed for one record
print_entry(entry) ==
    LET timestamp == IF IsSome(EntryTimestamp(entry))
                     THEN FormatLocal(Unwrap(EntryTimestamp(entry)))
                     ELSE "??:??:??"
        entry_type == UnwrapOrDefault(entry.type)
    IN  CASE entry_type = "user" -> <<UserMarker(timestamp)>>
          [] entry_type = "assistant" -> PrintBlocks(timestamp, BlocksOf(entry))
          [] OTHER -> <<>>

\* watch.rs extract_tool_id: the "id" of the first block of the content array
extract_tool_id(entry) ==
    IF BlocksOf(entry) = <<>> THEN None ELSE Head(BlocksOf(entry)).id

----------------------------------------------------------------------------
(* The watched file, byte by byte *)

\* "\n" and "\r"
NL == [e |-> 0, part |-> 0]
CR == [e |-> 0, part |-> 1]

\* the records the writer appends
WatchEntries == <<UserHello, UseRead, UseBashNoTs, AsstResultErr>>

\* the JSON text of record i, two bytes long: neither byte alone is valid JSON
Ser(i) == <<[e |-> i, part |-> 1], [e |-> i, part |-> 2]>>

\* the line terminator the writer uses
Term(rn) == IF rn THEN <<CR, NL>> ELSE <<NL>>

\* serde_json::from_str::<Value>(&line).ok()
from_str(line) ==
    IF \E i \in 1..Len(WatchEntries) : line = Ser(i)
    THEN Some(WatchEntries[CHOOSE i \in 1..Len(WatchEntries) : line = Ser(i)])
    ELSE None

\* BufRead::lines(): the pieces between "\n" bytes, a "\r" before the "\n"
\* dropped; the bytes after the last "\n" are a line too unless there are none
RECURSIVE SplitLines(_, _)
SplitLines(bytes, cur) ==
    IF bytes = <<>> THEN (IF cur = <<>> THEN <<>> ELSE <<cur>>)
    ELSE IF Head(bytes) = NL
         THEN <<IF cur # <<>> /\ Last(cur) = CR THEN SubSeq(cur, 1, Len(cur) - 1) ELSE cur>>
              \o SplitLines(Tail(bytes), <<>>)
         ELSE SplitLines(Tail(bytes), Append(cur, Head(bytes)))

\* the lines a BufReader on the descriptor yields: the bytes from the offset
\* to the end of the file
LinesFrom(bytes, off) ==
    IF off >= Len(bytes) THEN <<>> ELSE SplitLines(SubSeq(bytes, off + 1, Len(bytes)), <<>>)

\* the descriptor left where it stood before the read
OffsetAfterRead_StaysPut(bytes, off) == off

\* where the descriptor stands after the BufReader has read to the end
OffsetAfterRead(bytes, off) == IF off >= Len(bytes) THEN off ELSE Len(bytes)

\* watch.rs:116-123, the loop of read_existing_entries
RECURSIVE ExistingLoop(_, _, _)
ExistingLoop(ls, last_pos, seen) ==
    IF ls = <<>> THEN [last_pos |-> last_pos, seen_ids |-> seen]
    ELSE LET line == Head(ls)
             entry == from_str(line)
             id == IF IsSome(entry) THEN extract_tool_id(Unwrap(entry)) ELSE None
         IN  ExistingLoop(Tail(ls), last_pos + Len(line) + 1,
                          IF IsSome(id) THEN seen \cup {Unwrap(id)} ELSE seen)

\* watch.rs read_existing_entries on a file just opened
read_existing_entries(bytes, seen) == ExistingLoop(LinesFrom(bytes, 0), 0, seen)

\* watch.rs:152-167, the loop of read_new_lines
RECURSIVE NewLoop(_, _, _)
NewLoop(ls, seen, out) ==
    IF ls = <<>> THEN [seen_ids |-> seen, emitted |-> out]
    ELSE LET line == Head(ls)
             entry == from_str(line)
             id == IF IsSome(entry) THEN extract_tool_id(Unwrap(entry)) ELSE None
         IN  IF line = <<>> \/ entry = None THEN NewLoop(Tail(ls), seen, out)
             ELSE IF IsSome(id) /\ Unwrap(id) \in seen THEN NewLoop(Tail(ls), seen, out)
             ELSE NewLoop(Tail(ls),
                          IF IsSome(id) THEN seen \cup {Unwrap(id)} ELSE seen,
                          out \o print_entry(Unwrap(entry)))

\* watch.rs read_new_lines with the descriptor at off
read_new_lines(bytes, off, seen, out) == NewLoop(LinesFrom(bytes, off), seen, out)

----------------------------------------------------------------------------
(* watch_session_file and the writer of the file *)

\* parse_transcript is not running
ParseIdle ==
    /\ consumed = <<>>
    /\ summary = InitSummary
    /\ tool_calls = <<>>
    /\ agent_calls = <<>>
    /\ tool_breakdown = EmptyMap
    /\ pending_tools = EmptyMap
    /\ ppc = "done"
    /\ result = None

InitWatch ==
    /\ ParseIdle
    /\ FnIdle
    /\ CliIdle
    /\ LaunchIdle
    /\ file = <<>>
    /\ crlf \in BOOLEAN
    /\ offset = 0
    /\ seen_ids = {}
    /\ emitted = <<>>
    /\ chan = 0
    /\ wpc = "start"
    /\ replays = 0
    /\ io_error = FALSE

\* what one write() of the writer can append: a whole line, the first byte of
\* a record, the rest of a record begun, or the terminator of a record written
Chunks(bytes, rn) ==
    IF bytes # <<>> /\ Last(bytes).part = 1 /\ Last(bytes).e # 0
    THEN {<<[e |-> Last(bytes).e, part |-> 2]>>, <<[e |-> Last(bytes).e, part |-> 2]>> \o Term(rn)}
    ELSE IF bytes # <<>> /\ Last(bytes).part = 2
    THEN {Term(rn)}
    ELSE {Ser(i) \o Term(rn) : i \in 1..Len(WatchEntries)}
         \cup {<<[e |-> i, part |-> 1]>> : i \in 1..Len(WatchEntries)}

MinOf(a, b) == IF a <= b THEN a ELSE b

\* the writer appends to the file; once the watch is registered the notifier
\* sends one or two events for the write
WriterAppends ==
    /\ wpc \in {"start", "booted", "created", "watching"}
    /\ \E chunk \in Chunks(file, crlf) :
        /\ Len(file) + Len(chunk) <= MaxFileBytes
        /\ file' = file \o chunk
    /\ IF wpc = "watching"
       THEN \E n \in 1..2 : chan' = MinOf(chan + n, MaxChan)
       ELSE chan' = chan
    /\ UNCHANGED <<crlf, offset, seen_ids, emitted, wpc, replays, io_error>>
    /\ UNCHANGED parseVars
    /\ UNCHANGED fnVars
    /\ UNCHANGED cliVars
    /\ UNCHANGED launchVars

\* watch.rs:79-82: File::open fails
OpenFails ==
    /\ wpc = "start"
    /\ wpc' = "failed"
    /\ UNCHANGED <<file, crlf, offset, seen_ids, emitted, chan, replays, io_error>>
    /\ UNCHANGED parseVars
    /\ UNCHANGED fnVars
    /\ UNCHANGED cliVars
    /\ UNCHANGED launchVars

\* watch.rs:79-86: open, read_existing_entries, seek to initial_pos
Bootstrap ==
    /\ wpc = "start"
    /\ LET r == read_existing_entries(file, {}) IN
        /\ seen_ids' = r.seen_ids
        /\ offset' = r.last_pos
    /\ wpc' = "booted"
    /\ UNCHANGED <<file, crlf, emitted, chan, replays, io_error>>
    /\ UNCHANGED parseVars
    /\ UNCHANGED fnVars
    /\ UNCHANGED cliVars
    /\ UNCHANGED launchVars

\* watch.rs:88-98: the channel and the watcher are created
CreateWatcher ==
    /\ wpc = "booted"
    /\ wpc' = "created"
    /\ UNCHANGED <<file, crlf, offset, seen_ids, emitted, chan, replays, io_error>>
    /\ UNCHANGED parseVars
    /\ UNCHANGED fnVars
    /\ UNCHANGED cliVars
    /\ UNCHANGED launchVars

\* the error of RecommendedWatcher::new dropped and watch_loop entered
CreateFails_EntersLoop ==
    /\ wpc = "booted"
    /\ wpc' = "watching"
    /\ UNCHANGED <<file, crlf, offset, seen_ids, emitted, chan, replays, io_error>>
    /\ UNCHANGED parseVars
    /\ UNCHANGED fnVars
    /\ UNCHANGED cliVars
    /\ UNCHANGED launchVars

\* watch.rs:90-98: RecommendedWatcher::new fails
CreateFails ==
    /\ wpc = "booted"
    /\ wpc' = "failed"
    /\ UNCHANGED <<file, crlf, offset, seen_ids, emitted, chan, replays, io_error>>
    /\ UNCHANGED parseVars
    /\ UNCHANGED fnVars
    /\ UNCHANGED cliVars
    /\ UNCHANGED launchVars

\* watch.rs:100-104: the watch is registered and watch_loop entered
Register ==
    /\ wpc = "created"
    /\ wpc' = "watching"
    /\ UNCHANGED <<file, crlf, offset, seen_ids, emitted, chan, replays, io_error>>
    /\ UNCHANGED parseVars
    /\ UNCHANGED fnVars
    /\ UNCHANGED cliVars
    /\ UNCHANGED launchVars

\* watch.rs:100-102: watcher.watch fails
RegisterFails ==
    /\ wpc = "created"
    /\ wpc' = "failed"
    /\ UNCHANGED <<file, crlf, offset, seen_ids, emitted, chan, replays, io_error>>
    /\ UNCHANGED parseVars
    /\ UNCHANGED fnVars
    /\ UNCHANGED cliVars
    /\ UNCHANGED launchVars

\* watch.rs:134-137: an event is received and read_new_lines runs
Wake ==
    /\ wpc = "watching"
    /\ chan > 0
    /\ ~io_error
    /\ chan' = chan - 1
    /\ LET r == read_new_lines(file, offset, seen_ids, emitted) IN
        /\ seen_ids' = r.seen_ids
        /\ emitted' = r.emitted
    /\ offset' = OffsetAfterRead(file, offset)
    /\ UNCHANGED <<file, crlf, wpc, replays, io_error>>
    /\ UNCHANGED parseVars
    /\ UNCHANGED fnVars
    /\ UNCHANGED cliVars
    /\ UNCHANGED launchVars

\* watch.rs:134-136, 149-170: an event is received and the read of the file
\* fails: lines() yields Err, map_while(Result::ok) ends the loop,
\* read_new_lines returns Ok(()) and watch_loop goes on
WakeReadFails ==
    /\ wpc = "watching"
    /\ chan > 0
    /\ chan' = chan - 1
    /\ io_error' = TRUE
    /\ UNCHANGED <<file, crlf, offset, seen_ids, emitted, wpc, replays>>
    /\ UNCHANGED parseVars
    /\ UNCHANGED fnVars
    /\ UNCHANGED cliVars
    /\ UNCHANGED launchVars

\* watch.rs:138-140: recv_timeout times out and the loop goes round
Timeout ==
    /\ wpc = "watching"
    /\ chan = 0
    /\ UNCHANGED watchVars
    /\ UNCHANGED parseVars
    /\ UNCHANGED fnVars
    /\ UNCHANGED cliVars
    /\ UNCHANGED launchVars

\* watch.rs:141-143: the sender lives in the watcher's callback, and the
\* watcher is kept by watch_session_file until watch_loop returns:
\* Disconnected is not returned and the loop has no other way out than an Err
NextWatch ==
    \/ WriterAppends \/ OpenFails \/ Bootstrap \/ CreateWatcher \/ CreateFails
    \/ Register \/ RegisterFails \/ Wake \/ WakeReadFails \/ Timeout

SpecWatch == InitWatch /\ [][NextWatch]_vars

----------------------------------------------------------------------------
(* The bootstrapped lines fed through read_new_lines again *)

\* the files of at most n complete lines
RECURSIVE FilesOf(_, _)
FilesOf(n, rn) ==
    IF n = 0 THEN {<<>>}
    ELSE LET shorter == FilesOf(n - 1, rn) IN
         shorter \cup {f \o Ser(i) \o Term(rn) : f \in shorter, i \in 1..Len(WatchEntries)}

InitReplay ==
    /\ ParseIdle
    /\ FnIdle
    /\ CliIdle
    /\ LaunchIdle
    /\ crlf \in BOOLEAN
    /\ file \in FilesOf(MaxBootLines, crlf)
    /\ offset = 0
    /\ seen_ids = {}
    /\ emitted = <<>>
    /\ chan = 0
    /\ wpc = "start"
    /\ replays = 0
    /\ io_error = FALSE

\* the descriptor is set back to the start of the file and read_new_lines runs
\* (the duplicate of a notification for lines already consumed)
Replay ==
    /\ wpc = "booted"
    /\ replays < MaxReplays
    /\ replays' = replays + 1
    /\ LET r == read_new_lines(file, 0, seen_ids, emitted) IN
        /\ seen_ids' = r.seen_ids
        /\ emitted' = r.emitted
    /\ offset' = OffsetAfterRead(file, 0)
    /\ UNCHANGED <<file, crlf, chan, wpc, io_error>>
    /\ UNCHANGED parseVars
    /\ UNCHANGED fnVars
    /\ UNCHANGED cliVars
    /\ UNCHANGED launchVars

NextReplay == Bootstrap \/ Replay

SpecReplay == InitReplay /\ [][NextReplay]_vars

----------------------------------------------------------------------------
(* Claims about the live tail engine *)

\* how often x occurs in the sequence s
Count(s, x) == Cardinality({k \in 1..Len(s) : s[k] = x})

\* what the lines of a file print when each is printed once
RECURSIVE PrintAll(_)
PrintAll(ls) ==
    IF ls = <<>> THEN <<>>
    ELSE (IF IsSome(from_str(Head(ls))) THEN print_entry(Unwrap(from_str(Head(ls)))) ELSE <<>>)
         \o PrintAll(Tail(ls))

(* C9: after bootstrapping, feeding the bootstrapped lines through          *)
(* read_new_lines once or twice emits every tool-invocation marker and every *)
(* tool-error marker of those lines at most once in total, wherever the     *)
(* block stands in the content array.                                       *)
C9_ReplayEmitsAtMostOnce ==
    wpc = "booted" =>
        \A k \in 1..Len(emitted) :
            emitted[k].kind \in {"tool", "error"} =>
                Count(emitted, emitted[k]) <= Count(PrintAll(LinesFrom(file, 0)), emitted[k])

\* the byte offset at which the last, possibly unterminated, line begins
RECURSIVE LastLineStart(_)
LastLineStart(bytes) ==
    IF bytes = <<>> \/ Last(bytes) = NL THEN Len(bytes)
    ELSE LastLineStart(SubSeq(bytes, 1, Len(bytes) - 1))

(* C10: at the end of bootstrapping and while watching, a trailing line not *)
(* yet ended by a newline is not consumed: the resume cursor stays at or    *)
(* before the start of that line, so that the completed line is read whole. *)
C10_PartialLineNotConsumed ==
    wpc \in {"booted", "created", "watching"} => offset <= LastLineStart(file)

\* the events of s from position n + 1 on
Beyond(s, n) == SubSeq(s, n + 1, Len(s))

\* the step of watch_loop that takes one event off the channel
WakeStep == wpc = "watching" /\ chan' = chan - 1 /\ ~io_error'

\* C11, nothing twice: every marker has been emitted at most as often as the
\* records of the file carry it.
C11_AtMostOncePerRecord ==
    \A k \in 1..Len(emitted) :
        Count(emitted, emitted[k]) <= Count(PrintAll(LinesFrom(file, 0)), emitted[k])

\* C11, a wake: what a wake emits comes after what was emitted, from the lines
\* behind the cursor only; a record there whose id is new (or that has none)
\* is emitted; the cursor ends at the end of the file, so that a wake with
\* nothing appended since the last one emits nothing.
C11_WakeReadsNewLinesOnly ==
    WakeStep =>
        LET new == LinesFrom(file, offset)
            out == Beyond(emitted', Len(emitted))
        IN  /\ SubSeq(emitted', 1, Len(emitted)) = emitted
            /\ \A k \in 1..Len(out) : Count(out, out[k]) <= Count(PrintAll(new), out[k])
            /\ \A k \in 1..Len(new) :
                  LET entry == from_str(new[k])
                      id == IF IsSome(entry) THEN extract_tool_id(Unwrap(entry)) ELSE None
                  IN  (IsSome(entry) /\ (id = None \/ Unwrap(id) \notin seen_ids))
                      => \A j \in 1..Len(print_entry(Unwrap(entry))) :
                            Count(out, print_entry(Unwrap(entry))[j]) >= 1
            /\ offset' >= Len(file)
            /\ offset >= Len(file) => (emitted' = emitted /\ seen_ids' = seen_ids /\ offset' = offset)

(* C11: when the notifier delivers two or more events for one append, the    *)
(* events of the appended records are emitted exactly once: the first wake   *)
(* emits them, the second emits nothing for the lines the first consumed.    *)
C11_DuplicateEventEmitsOnce ==
    []C11_AtMostOncePerRecord /\ [][C11_WakeReadsNewLinesOnly]_vars

\* a user record was appended while watching, the first of two wakes has
\* emitted its marker and the second event is still in the channel
C11_Witness ==
    /\ wpc = "watching"
    /\ chan = 1
    /\ offset = Len(file)
    /\ file = Ser(1) \o Term(crlf)
    /\ emitted = <<UserMarker("00:00:00")>>

\* C12, the order: each stage of watch_session_file is entered from the stage
\* before it and from nowhere else; an Err returned is final.
C12_StagesInOrder ==
    /\ (wpc' = "booted" /\ wpc # "booted") => wpc = "start"
    /\ (wpc' = "created" /\ wpc # "created") => wpc = "booted"
    /\ (wpc' = "watching" /\ wpc # "watching") => wpc = "created"
    /\ (wpc' = "failed" /\ wpc # "failed") => wpc \in {"start", "booted", "created"}
    /\ wpc = "failed" => wpc' = "failed"

\* C12, before the loop: until watch_loop is entered, and when an Err was
\* returned instead, nothing was emitted, no event was received and the
\* descriptor was not read past the bootstrap.
C12_NothingBeforeTheLoop ==
    /\ wpc \in {"start", "booted", "created", "failed"} => (emitted = <<>> /\ chan = 0)
    /\ wpc = "start" => (offset = 0 /\ seen_ids = {})

(* C12: watch_loop is entered only after the file was opened, the bootstrap  *)
(* finished and the watch was registered, in that order; when opening the    *)
(* file, creating the watcher or registering the watch fails,                *)
(* watch_session_file returns an error without entering the loop and         *)
(* without emitting an event.                                                *)
C12_LoopOnlyAfterSetup ==
    []C12_NothingBeforeTheLoop /\ [][C12_StagesInOrder]_vars

\* the watcher could not be set up after a file holding a tool call was read
C12_Witness ==
    /\ wpc = "failed"
    /\ seen_ids = {"t1"}
    /\ offset = Len(file)
    /\ Len(file) >= 6

----------------------------------------------------------------------------
(* print_entry, record by record *)

MaxPrinted == 2

\* a block of a type print_content_block does not know, and one without a type
ThinkingBlock ==
    [type |-> Some("thinking"), id |-> None, name |-> None, input |-> None,
     tool_use_id |-> None, is_error |-> None]
UntypedBlock ==
    [type |-> None, id |-> Some("t7"), name |-> Some("Read"), input |-> None,
     tool_use_id |-> None, is_error |-> Some(TRUE)]

AsstThinkingAndOk == Obj(Some("assistant"), Some(T1000), None, None, None,
                         Msg(None, ContentArr(<<ThinkingBlock, ToolResult(Some("t1"), Some(FALSE))>>)))
AsstUntypedAndNoFlag == Obj(Some("assistant"), Some(T0), None, None, None,
                            Msg(None, ContentArr(<<UntypedBlock, ToolResult(Some("t1"), None)>>)))
AsstTwoUses == Obj(Some("assistant"), Some(T0), None, None, None,
                   Msg(None,
                       ContentArr(<<ToolUse(Some("t5"), Some("Write"), Some([path |-> PathLibRs])),
                                    ToolUse(Some("t6"), Some("TodoWrite"), Some(EmptyMap))>>)))
AsstErrThenUse == Obj(Some("assistant"), None, None, None, None,
                      Msg(None,
                          ContentArr(<<ToolResult(Some("t1"), Some(TRUE)),
                                       ToolUse(Some("t8"), Some("WebFetch"), None)>>)))

\* the records handed to print_entry
PrintEntries ==
    {l \in Lines : l.kind = "object"}
    \cup {AsstResultErr, AsstThinkingAndOk, AsstUntypedAndNoFlag, AsstTwoUses, AsstErrThenUse}

InitPrint ==
    /\ FnIdle
    /\ CliIdle
    /\ LaunchIdle
    /\ consumed = <<>>
    /\ summary = InitSummary
    /\ tool_calls = <<>>
    /\ agent_calls = <<>>
    /\ tool_breakdown = EmptyMap
    /\ pending_tools = EmptyMap
    /\ ppc = "done"
    /\ result = None
    /\ file = <<>>
    /\ crlf = FALSE
    /\ offset = 0
    /\ seen_ids = {}
    /\ emitted = <<>>
    /\ chan = 0
    /\ wpc = "printing"
    /\ replays = 0
    /\ io_error = FALSE

\* watch.rs:165: print_entry(&entry) for one more record
PrintEntry ==
    /\ wpc = "printing"
    /\ Len(consumed) < MaxPrinted
    /\ \E entry \in PrintEntries :
        /\ consumed' = Append(consumed, entry)
        /\ emitted' = emitted \o print_entry(entry)
    /\ UNCHANGED <<summary, tool_calls, agent_calls, tool_breakdown, pending_tools, ppc, result>>
    /\ UNCHANGED <<file, crlf, offset, seen_ids, chan, wpc, replays, io_error>>
    /\ UNCHANGED fnVars
    /\ UNCHANGED cliVars
    /\ UNCHANGED launchVars

NextPrint == PrintEntry

SpecPrint == InitPrint /\ [][NextPrint]_vars

\* the blocks of an assistant record that are to give a marker: the tool_use
\* blocks and the tool_result blocks flagged as errors
Marked(blocks) ==
    {i \in 1..Len(blocks) :
        \/ blocks[i].type = Some("tool_use")
        \/ (blocks[i].type = Some("tool_result") /\ blocks[i].is_error = Some(TRUE))}

\* C14, one record: what print_entry adds for the record just read.
C14_MarkersOfRecord ==
    (wpc = "printing" /\ Len(consumed') = Len(consumed) + 1) =>
        LET entry == Last(consumed')
            blocks == BlocksOf(entry)
            out == Beyond(emitted', Len(emitted))
        IN  /\ SubSeq(emitted', 1, Len(emitted)) = emitted
            /\ entry.type = Some("user") => (Len(out) = 1 /\ out[1].kind = "user")
            /\ entry.type = Some("assistant") =>
                  /\ Len(out) = Cardinality(Marked(blocks))
                  /\ \A i \in Marked(blocks) :
                        LET m == out[Cardinality({j \in Marked(blocks) : j <= i})] IN
                        IF blocks[i].type = Some("tool_use")
                        THEN m.kind = "tool" /\ m.name = (IF IsSome(blocks[i].name)
                                                          THEN Unwrap(blocks[i].name)
                                                          ELSE "Unknown")
                        ELSE m.kind = "error"
            /\ entry.type \notin {Some("user"), Some("assistant")} => out = <<>>

(* C14: for each record read the live tail engine emits only these events:  *)
(* one user-turn marker for a user record; for an assistant record one      *)
(* tool-invocation marker per tool_use block, in block order, and one       *)
(* tool-error marker per tool_result block whose is_error is true; nothing  *)
(* for text blocks, unknown blocks, tool results that are no errors, or     *)
(* records of another kind.                                                 *)
C14_OnlyTheseMarkers == [][C14_MarkersOfRecord]_vars

\* an error marker, then a tool marker: the record with an erroring
\* tool_result block before a tool_use block was printed after a record that
\* prints nothing
C14_Witness ==
    /\ wpc = "printing"
    /\ consumed = <<AsstThinkingAndOk, AsstErrThenUse>>
    /\ Len(emitted) = 2
    /\ emitted[1].kind = "error"
    /\ emitted[2].kind = "tool"

----------------------------------------------------------------------------
(* The display target, on the live path and on the batch path *)

DotDot == <<".", ".">>

\* the tool names and the "input" payloads of a tool_use block
ToolNames == {"Read", "Write", "Edit", "Glob", "Grep", "Bash", "Task", "TodoWrite", "WebFetch"}
TargetInputs ==
    {None, Some(EmptyMap),
     Some([file_path |-> PathMainRs]),
     Some([file_path |-> PathMainRs, path |-> PathLibRs]),
     Some([filePath |-> PathLibRs]),
     Some([path |-> PathMainRs, filePath |-> PathLibRs]),
     Some([file_path |-> DotDot]),
     Some([pattern |-> PatFnMain]),
     Some([pattern |-> CmdLong]),
     Some([command |-> DescFix]),
     Some([command |-> CmdLong]),
     Some([description |-> DescFix])}

InitTarget ==
    /\ ParseIdle
    /\ WatchIdle
    /\ CliIdle
    /\ LaunchIdle
    /\ fn_args \in [tool_name : ToolNames, input : TargetInputs]
    /\ fn_ret = None

\* watch.rs:219 and transcript.rs:178, 192: the target of one tool_use block
\* as each path computes it
ExtractTargets ==
    /\ fn_args # None
    /\ fn_ret = None
    /\ fn_ret' = Some([live |-> extract_target(fn_args.tool_name, fn_args.input),
                       batch |-> extract_tool_target(fn_args.tool_name, fn_args.input)])
    /\ UNCHANGED fn_args
    /\ UNCHANGED parseVars
    /\ UNCHANGED watchVars
    /\ UNCHANGED cliVars
    /\ UNCHANGED launchVars

NextTarget == ExtractTargets

SpecTarget == InitTarget /\ [][NextTarget]_vars

(* C15: the live path and the batch path compute the display target with the *)
(* same projection: for every tool name and every input payload watch.rs     *)
(* extract_target and transcript.rs extract_tool_target return the same      *)
(* target.                                                                   *)
C15_SameProjection ==
    fn_ret # None => Unwrap(fn_ret).live = Unwrap(fn_ret).batch

----------------------------------------------------------------------------
(* Further claims about parse_transcript *)

\* sub-agent dispatches to try on every state of the parse: ids open, closed
\* or never seen, with and without an input
ProbeTasks ==
    {ToolUse(Some(x), Some("Task"), i) :
        x \in {"t1", "t2", "t3", "t9"},
        i \in {None, Some([description |-> DescFix, subagent_type |-> TypeExplore]),
               Some([description |-> DescFix])}}

\* C16, block by block: whatever has been read, a "Task" tool_use block adds
\* one AgentCall and 1 to summary.agent_calls and changes nothing else.
C16_TaskBlock ==
    ppc = "reading" =>
        \A b \in ProbeTasks, ts \in ProbeTimes :
            LET a == ProcessBlock(Acc, b, ts) IN
            /\ a.summary = [summary EXCEPT !.agent_calls = @ + 1]
            /\ Len(a.agent_calls) = Len(agent_calls) + 1
            /\ SubSeq(a.agent_calls, 1, Len(agent_calls)) = agent_calls
            /\ Last(a.agent_calls).timestamp = ts
            /\ a.tool_calls = tool_calls
            /\ a.tool_breakdown = tool_breakdown
            /\ a.pending_tools = pending_tools

\* the "Task" tool_use blocks read so far
TaskBlocks(ls) ==
    {p \in Positions(ls) : IsUse(BlockAt(ls, p)) /\ UnwrapOrDefault(BlockAt(ls, p).name) = "Task"}

\* C16, after any sequence: the histogram has no entry for "Task", no ToolCall
\* is a "Task", and the counter, the list and the blocks read agree.
C16_AgentCallsApart ==
    /\ "Task" \notin DOMAIN tool_breakdown
    /\ \A x \in DOMAIN pending_tools : pending_tools[x].name # "Task"
    /\ \A k \in 1..Len(tool_calls) : tool_calls[k].name # "Task"
    /\ summary.agent_calls = Len(agent_calls)
    /\ Len(agent_calls) = Cardinality(TaskBlocks(consumed))
    /\ IsSome(result) =>
          /\ "Task" \notin DOMAIN Unwrap(result).tool_breakdown
          /\ Unwrap(result).summary.agent_calls = Len(Unwrap(result).agent_calls)
          /\ \A k \in 1..Len(Unwrap(result).tool_calls) : Unwrap(result).tool_calls[k].name # "Task"

(* C16: a tool_use block whose tool name is "Task" is recorded only as an    *)
(* AgentCall: one entry more in agent_calls and 1 more in                    *)
(* summary.agent_calls, with tool_calls, tool_breakdown, the open map and    *)
(* the ToolCall list unchanged; so tool_breakdown never has an entry for     *)
(* "Task" and summary.agent_calls is the length of agent_calls.              *)
C16_TaskIsOnlyAnAgentCall == C16_TaskBlock /\ C16_AgentCallsApart

\* two sub-agent dispatches after a Read call; the parse has returned
C16_Witness ==
    /\ ppc = "done"
    /\ consumed = <<UseRead, UseTask, UseTask>>
    /\ IsSome(result)
    /\ Unwrap(result).summary.agent_calls = 2
    /\ Unwrap(result).summary.tool_calls = 1
    /\ DOMAIN Unwrap(result).tool_breakdown = {"Read"}

\* the entries of a ToolCall list that are marked as errors
ErrorCalls(calls) == {k \in 1..Len(calls) : calls[k].is_error}

(* C17: after any record sequence summary.tool_errors is the number of       *)
(* ToolCall entries of the returned list whose is_error is true: every       *)
(* ToolCall marked as an error was counted once and no error is counted      *)
(* without such a ToolCall.                                                  *)
C17_ErrorsCountedOnce ==
    /\ summary.tool_errors = Cardinality(ErrorCalls(tool_calls))
    /\ \A x \in DOMAIN pending_tools : ~pending_tools[x].is_error
    /\ IsSome(result) =>
          Unwrap(result).summary.tool_errors = Cardinality(ErrorCalls(Unwrap(result).tool_calls))

\* returned: one call closed as an error and one still open
C17_Witness ==
    /\ ppc = "done"
    /\ consumed = <<UseRead, ResultErr, UseBashNoTs>>
    /\ IsSome(result)
    /\ Len(Unwrap(result).tool_calls) = 2
    /\ Unwrap(result).summary.tool_errors = 1

\* a decoded record whose type is missing or neither "user" nor "assistant"
IsOther(l) == l.kind = "object" /\ l.type \notin {Some("user"), Some("assistant")}

\* the lines read so far without the records of another kind
WithoutOther(ls) == SelectSeq(ls, LAMBDA l : ~IsOther(l))

(* C18: a record whose type is missing or neither "user" nor "assistant" is  *)
(* a no-op for the aggregator: message_count, tool_calls, tool_errors,       *)
(* agent_calls, tool_breakdown and the ToolCall list are what they would be  *)
(* had the record not been there, even when it carries a message with        *)
(* tool_use or tool_result blocks.                                           *)
C18_OtherRecordIsNoOp ==
    ppc = "reading" =>
        LET a == ParseLines(InitAcc, WithoutOther(consumed)) IN
        /\ summary.message_count = a.summary.message_count
        /\ summary.tool_calls = a.summary.tool_calls
        /\ summary.tool_errors = a.summary.tool_errors
        /\ summary.agent_calls = a.summary.agent_calls
        /\ agent_calls = a.agent_calls
        /\ tool_breakdown = a.tool_breakdown
        /\ tool_calls = a.tool_calls

(* C19: parse_transcript is a function of its input: whatever another run   *)
(* over the same lines returns is what this run returned, the order of the   *)
(* calls still open at the end of the stream included.                       *)
C19_SameLinesSameResult ==
    ppc = "done" =>
        \A other \in Returns(ParseLines(InitAcc, consumed)) : other = result

----------------------------------------------------------------------------
(* truncate_str on its own *)

MaxTruncLen == 8

\* two characters of two bytes each in UTF-8; a string is the sequence of its
\* characters, whatever their width in bytes
CyrP == "U+041F"
CyrR == "U+0440"

TruncStrings ==
    {<<>>,
     <<"a", "b">>,
     <<"a", "b", "c">>,
     <<"a", "b", "c", "d">>,
     <<"h", "e", "l", "l", "o">>,
     <<"h", "e", "l", "l", "o", " ", "w", "o", "r", "l", "d">>,
     <<CyrP, CyrR>>,
     <<CyrP, CyrR, "a", CyrP, CyrR, " ", CyrR, CyrP, "b", CyrR>>}

InitTruncate ==
    /\ ParseIdle
    /\ WatchIdle
    /\ CliIdle
    /\ LaunchIdle
    /\ fn_args \in [s : TruncStrings, max_len : 0..MaxTruncLen]
    /\ fn_ret = None

\* transcript.rs:296-303 (and watch.rs:284-291): one call of truncate_str
TruncateStr ==
    /\ fn_args # None
    /\ fn_ret = None
    /\ fn_ret' = Some(truncate_str(fn_args.s, fn_args.max_len))
    /\ UNCHANGED fn_args
    /\ UNCHANGED parseVars
    /\ UNCHANGED watchVars
    /\ UNCHANGED cliVars
    /\ UNCHANGED launchVars

NextTruncate == TruncateStr

SpecTruncate == InitTruncate /\ [][NextTruncate]_vars

\* the characters of a sequence
CharsOf(s) == {s[k] : k \in 1..Len(s)}

(* C20: truncate_str(s, n) works on characters: it returns s unchanged when  *)
(* s has at most n characters, otherwise the first n - 3 characters of s     *)
(* followed by "..."; for every s and every n the result has at most n       *)
(* characters and holds whole characters only.                               *)
C20_TruncateStrWithinMaxLen ==
    fn_ret # None =>
        LET s == fn_args.s
            n == fn_args.max_len
            r == Unwrap(fn_ret)
        IN  /\ Len(s) <= n => r = s
            /\ Len(s) > n =>
                  /\ Len(r) >= 3
                  /\ SubSeq(r, Len(r) - 2, Len(r)) = <<".", ".", ".">>
                  /\ SubSeq(r, 1, Len(r) - 3) = SubSeq(s, 1, Len(r) - 3)
                  /\ n >= 3 => Len(r) - 3 = n - 3
            /\ CharsOf(r) \subseteq CharsOf(s) \cup {"."}
            /\ Len(r) <= n

----------------------------------------------------------------------------
(* list_sessions: the transcripts of one project directory *)

MaxDirEntries == 3

\* a directory entry: its file name, whether it is a directory, and the
\* modification time std::fs::metadata gives (None when metadata fails)
DirEntry(name, dir, mtime) == [name |-> name, dir |-> dir, mtime |-> mtime]

NameA == <<"a", ".", "j", "s", "o", "n", "l">>
NameB == <<"b", ".", "j", "s", "o", "n", "l">>
NameAgentX == <<"a", "g", "e", "n", "t", "-", "x", ".", "j", "s", "o", "n", "l">>
NameAgent == <<"a", "g", "e", "n", "t", ".", "j", "s", "o", "n", "l">>
NameNotes == <<"n", "o", "t", "e", "s", ".", "t", "x", "t">>
NameDotJsonl == <<".", "j", "s", "o", "n", "l">>
NameBak == <<"c", ".", "j", "s", "o", "n", "l", ".", "b", "a", "k">>
NameJsonl == <<"j", "s", "o", "n", "l">>
NameSubdir == <<"d", ".", "j", "s", "o", "n", "l">>

\* what a project directory can hold
DirEntries ==
    {DirEntry(NameA, FALSE, Some(3)),
     DirEntry(NameB, FALSE, Some(1)),
     DirEntry(NameAgentX, FALSE, Some(5)),
     DirEntry(NameAgent, FALSE, Some(3)),
     DirEntry(NameNotes, FALSE, Some(4)),
     DirEntry(NameDotJsonl, FALSE, Some(6)),
     DirEntry(NameBak, FALSE, None),
     DirEntry(NameJsonl, TRUE, Some(2)),
     DirEntry(NameSubdir, TRUE, Some(4))}

\* the entries of a directory in the order read_dir yields them
RECURSIVE Listings(_)
Listings(n) ==
    IF n = 0 THEN {<<>>}
    ELSE LET shorter == Listings(n - 1) IN
         shorter \cup {Append(l, e) : l \in {s \in shorter : Len(s) = n - 1},
                                      e \in DirEntries}

Distinct(l) == \A i, j \in 1..Len(l) : i # j => l[i] # l[j]

\* the index of the last "." of a name, 0 when there is none
LastDot(name) ==
    LET dots == {i \in 1..Len(name) : name[i] = "."} IN
    IF dots = {} THEN 0 ELSE CHOOSE i \in dots : \A j \in dots : j <= i

\* std::path::Path::extension: what follows the last ".", unless there is no
\* "." or the only one begins the name
extension(name) ==
    IF LastDot(name) <= 1 THEN None ELSE Some(SubSeq(name, LastDot(name) + 1, Len(name)))

\* std::path::Path::file_stem: what precedes the last ".", or the whole name
file_stem(name) ==
    IF LastDot(name) <= 1 THEN name ELSE SubSeq(name, 1, LastDot(name) - 1)

\* str::starts_with
starts_with(s, prefix) == Len(s) >= Len(prefix) /\ SubSeq(s, 1, Len(prefix)) = prefix

ExtJsonl == <<"j", "s", "o", "n", "l">>
AgentPrefix == <<"a", "g", "e", "n", "t", "-">>

\* transcript.rs:311-316: the test an entry passes to be listed
IsSession(e) ==
    /\ extension(e.name) = Some(ExtJsonl)
    /\ ~starts_with(file_stem(e.name), AgentPrefix)

\* Option<SystemTime> in its order: None is below every time
TimeRank(m) == IF m = None THEN 0 - 1 ELSE Unwrap(m)

\* transcript.rs:320-324: b_time.cmp(&a_time) is Less: a goes before b
NewerFirst(a, b) == TimeRank(a.mtime) > TimeRank(b.mtime)

\* sort_by is stable: e goes behind every entry that is not to come after it
InsertSorted(sorted, e) ==
    LET after == {i \in 1..Len(sorted) : NewerFirst(e, sorted[i])}
        at == IF after = {} THEN Len(sorted) + 1
              ELSE CHOOSE i \in after : \A j \in after : i <= j
    IN  SubSeq(sorted, 1, at - 1) \o <<e>> \o SubSeq(sorted, at, Len(sorted))

RECURSIVE SortSessions(_, _)
SortSessions(sorted, rest) ==
    IF rest = <<>> THEN sorted ELSE SortSessions(InsertSorted(sorted, Head(rest)), Tail(rest))

\* transcript.rs:305-327: list_sessions of a directory; dir is None when
\* read_dir fails
list_sessions(dir) ==
    IF dir = None THEN <<>>
    ELSE SortSessions(<<>>, SelectSeq(Unwrap(dir), IsSession))

InitList ==
    /\ ParseIdle
    /\ WatchIdle
    /\ CliIdle
    /\ LaunchIdle
    /\ fn_args \in {[project_dir |-> None]}
                   \cup {[project_dir |-> Some(l)] : l \in {s \in Listings(MaxDirEntries) : Distinct(s)}}
    /\ fn_ret = None

\* watch.rs:61, sessions.rs:104: one call of list_sessions
ListSessions ==
    /\ fn_args # None
    /\ fn_ret = None
    /\ fn_ret' = Some(list_sessions(fn_args.project_dir))
    /\ UNCHANGED fn_args
    /\ UNCHANGED parseVars
    /\ UNCHANGED watchVars
    /\ UNCHANGED cliVars
    /\ UNCHANGED launchVars

NextList == ListSessions

SpecList == InitList /\ [][NextList]_vars

\* a name that ends in ".jsonl" behind at least one character
EndsInJsonl(name) ==
    /\ Len(name) > 6
    /\ SubSeq(name, Len(name) - 5, Len(name)) = <<".", "j", "s", "o", "n", "l">>

\* a name that begins with "agent-"
BeginsWithAgent(name) ==
    Len(name) >= 6 /\ SubSeq(name, 1, 6) = <<"a", "g", "e", "n", "t", "-">>

(* C21: list_sessions returns exactly the files of the project directory     *)
(* whose name has the extension .jsonl and whose stem does not start with    *)
(* "agent-", each once, the most recently modified first; a directory that   *)
(* cannot be read gives the empty list and no error.  The test of            *)
(* transcript.rs:311-316 is on the name alone: a subdirectory named d.jsonl  *)
(* is returned among the sessions.                                           *)
C21_ListSessions ==
    fn_ret # None =>
        LET r == Unwrap(fn_ret)
            dir == fn_args.project_dir
        IN  IF dir = None THEN r = <<>>
            ELSE LET entries == {Unwrap(dir)[k] : k \in 1..Len(Unwrap(dir))} IN
                 /\ {r[k] : k \in 1..Len(r)} =
                        {e \in entries : /\ ~e.dir
                                         /\ EndsInJsonl(e.name)
                                         /\ ~BeginsWithAgent(e.name)}
                 /\ Distinct(r)
                 /\ \A i, j \in 1..Len(r) :
                        (i < j /\ IsSome(r[i].mtime) /\ IsSome(r[j].mtime))
                            => Unwrap(r[i].mtime) >= Unwrap(r[j].mtime)
                 /\ \A i, j \in 1..Len(r) :
                        (i < j /\ r[i].mtime = None) => r[j].mtime = None

----------------------------------------------------------------------------
(* The profile store and the global configuration: rafctl profile add,       *)
(* remove, show, list and rafctl config set-default, clear-default.  Names   *)
(* are sequences of one-character strings.                                   *)

\* the characters of the names below, in the order of their code points
Ascii ==
    <<" ", "-", "0", "1", "2", "3", "4", "5", "6", "7", "8", "9",
      "A", "B", "C", "D", "E", "F", "G", "H", "I", "J", "K", "L", "M",
      "N", "O", "P", "Q", "R", "S", "T", "U", "V", "W", "X", "Y", "Z", "_",
      "a", "b", "c", "d", "e", "f", "g", "h", "i", "j", "k", "l", "m",
      "n", "o", "p", "q", "r", "s", "t", "u", "v", "w", "x", "y", "z">>

Chars == {Ascii[i] : i \in 1..Len(Ascii)}

CodePoints == [c \in Chars |-> CHOOSE i \in 1..Len(Ascii) : Ascii[i] = c]

CodePoint(c) == CodePoints[c]

IsUpper(c) == CodePoint(c) >= CodePoint("A") /\ CodePoint(c) <= CodePoint("Z")

IsLower(c) == CodePoint(c) >= CodePoint("a") /\ CodePoint(c) <= CodePoint("z")

IsDigit(c) == CodePoint(c) >= CodePoint("0") /\ CodePoint(c) <= CodePoint("9")

\* char::to_lowercase on these characters
LowerCase ==
    [c \in Chars |->
        IF IsUpper(c) THEN Ascii[CodePoint(c) - CodePoint("A") + CodePoint("a")] ELSE c]

\* str::to_lowercase
to_lowercase(str) == [i \in 1..Len(str) |-> LowerCase[str[i]]]

\* Ord for str: byte-wise lexicographic
RECURSIVE StrLess(_, _)
StrLess(a, b) ==
    IF b = <<>> THEN FALSE
    ELSE IF a = <<>> THEN TRUE
    ELSE IF a[1] # b[1] THEN CodePoint(a[1]) < CodePoint(b[1])
    ELSE StrLess(Tail(a), Tail(b))

\* Vec<String>::sort of a set of distinct strings
RECURSIVE SortStrings(_)
SortStrings(set) ==
    IF set = {} THEN <<>>
    ELSE LET least == CHOOSE x \in set : \A y \in set \ {x} : StrLess(x, y)
         IN  <<least>> \o SortStrings(set \ {least})

\* Result<(), RafctlError>
Ok == <<"Ok">>
Err(kind, what) == <<"Err", kind, what>>
IsErr(r, kind) == Len(r) = 3 /\ r[1] = "Err" /\ r[2] = kind

\* error.rs:6-16: the fixed text of the messages
ErrorText(kind) ==
    CASE kind = "ProfileNotFound" -> "not found"
      [] kind = "ProfileAlreadyExists" -> "already exists"
      [] kind = "InvalidProfileName" -> "Invalid profile name"
      [] kind = "ReservedProfileName" -> "Reserved profile name"

\* core/profile.rs:10-12
MAX_PROFILE_NAME_LENGTH == 64

RESERVED_NAMES ==
    { <<"d", "e", "f", "a", "u", "l", "t">>, <<"c", "o", "n", "f", "i", "g">>,
      <<"c", "a", "c", "h", "e">>, <<"p", "r", "o", "f", "i", "l", "e", "s">>,
      <<"o", "a", "u", "t", "h">> }

\* PROFILE_NAME_PATTERN ^[a-zA-Z0-9_-]+$
MatchesNamePattern(name) ==
    /\ name # <<>>
    /\ \A i \in 1..Len(name) :
          IsUpper(name[i]) \/ IsLower(name[i]) \/ IsDigit(name[i])
              \/ name[i] = "_" \/ name[i] = "-"

\* core/profile.rs:130-147
validate_profile_name(name) ==
    IF name = <<>> THEN Err("InvalidProfileName", name)
    ELSE IF Len(name) > MAX_PROFILE_NAME_LENGTH THEN Err("InvalidProfileName", name)
    ELSE IF ~MatchesNamePattern(name) THEN Err("InvalidProfileName", name)
    ELSE IF to_lowercase(name) \in RESERVED_NAMES THEN Err("ReservedProfileName", name)
    ELSE Ok

\* core/profile.rs:67-80: ToolType::from_str
ParseToolType(str) ==
    LET l == to_lowercase(str) IN
    IF l = <<"c", "l", "a", "u", "d", "e">> THEN Some("Claude")
    ELSE IF l = <<"c", "o", "d", "e", "x">> THEN Some("Codex")
    ELSE None

\* core/profile.rs:37-50: AuthMode::from_str
ParseAuthMode(str) ==
    LET l == to_lowercase(str) IN
    IF l = <<"o", "a", "u", "t", "h">> THEN Some("OAuth")
    ELSE IF l \in { <<"a", "p", "i", "-", "k", "e", "y">>, <<"a", "p", "i", "k", "e", "y">>,
                    <<"a", "p", "i", "_", "k", "e", "y">> } THEN Some("ApiKey")
    ELSE None

\* core/profile.rs:110-119: Profile::new_with_auth
NewWithAuth(name, tool, auth_mode) ==
    [name |-> name, tool |-> tool, auth_mode |-> auth_mode, api_key |-> None,
     last_used |-> None]

\* core/profile.rs:158-160: the directory of a profile
get_profile_dir(name) == to_lowercase(name)

\* core/profile.rs:240-243: meta.yaml exists in the directory of the name
profile_exists(store, name) == get_profile_dir(name) \in DOMAIN store

\* core/profile.rs:209-220: the directory is created and meta.yaml (re)written
save_profile(store, profile) ==
    [d \in DOMAIN store \cup {get_profile_dir(profile.name)} |->
        IF d = get_profile_dir(profile.name) THEN profile ELSE store[d]]

\* core/profile.rs:222-238
load_profile(store, name) ==
    IF get_profile_dir(name) \in DOMAIN store
    THEN Some(store[get_profile_dir(name)])
    ELSE None

\* core/profile.rs:245-271: the directories that hold a meta.yaml, sorted
list_profiles(store) == SortStrings(DOMAIN store)

\* core/profile.rs:273-284: remove_dir_all of the directory of the name
delete_profile(store, name) ==
    [d \in DOMAIN store \ {get_profile_dir(name)} |-> store[d]]

\* the names, tools and auth modes typed on the command line
NameWorkCap == <<"W", "o", "r", "k">>
NameWork == <<"w", "o", "r", "k">>
NameDev == <<"d", "e", "v">>
NameDefaultCap == <<"D", "e", "f", "a", "u", "l", "t">>
NameSpaced == <<"a", " ", "b">>
NameTooLong == [i \in 1..(MAX_PROFILE_NAME_LENGTH + 1) |-> "a"]

ProfileNames == {NameWorkCap, NameWork, NameDev, NameDefaultCap, NameSpaced, NameTooLong, <<>>}

ToolArgs == { <<"c", "l", "a", "u", "d", "e">>, <<"C", "o", "d", "e", "x">>, <<"v", "i", "m">> }

AuthModeArgs == { None, Some(<<"a", "p", "i", "-", "k", "e", "y">>), Some(<<"s", "s", "o">>) }

\* the names that pass validate_profile_name
StorableNames == {NameWorkCap, NameWork, NameDev}

\* the arguments of profile add: every tool and auth mode with the names that
\* differ in case only, a Claude and a Codex profile of another name, every
\* name with a tool that parses, and a name that cannot be stored with a tool
\* and an auth mode that do not parse
AddArgs ==
    {<<n, t, a>> : n \in {NameWorkCap, NameWork}, t \in ToolArgs, a \in AuthModeArgs}
    \cup {<<NameDev, <<"C", "o", "d", "e", "x">>, None>>}
    \cup {<<n, <<"c", "l", "a", "u", "d", "e">>, None>> : n \in ProfileNames}
    \cup {<<NameSpaced, <<"v", "i", "m">>, Some(<<"s", "s", "o">>)>>}

\* the outcome of one command
Outcome(cmd, arg, res, stdout) ==
    [cmd |-> cmd, arg |-> arg, result |-> res, stdout |-> stdout]

\* core/profile.rs:74-77: the message of ToolType::from_str for a string that
\* names no tool
ToolTypeError(str) ==
    <<"Invalid tool type '", str, "'. Valid options: claude, codex">>

\* core/profile.rs:44-47: the message of AuthMode::from_str for a string that
\* names no mode
AuthModeError(str) ==
    <<"Invalid auth mode '", str, "'. Valid options: oauth, api-key">>

\* cli/profile.rs:28-78: Result of handle_add, before anything is saved
AddResult(store, name, tool, auth_mode) ==
    IF validate_profile_name(name) # Ok THEN validate_profile_name(name)
    ELSE IF profile_exists(store, to_lowercase(name))
         THEN Err("ProfileAlreadyExists", to_lowercase(name))
    ELSE IF ParseToolType(tool) = None
         THEN Err("InvalidProfileName", ToolTypeError(tool))
    ELSE IF auth_mode # None /\ ParseAuthMode(Unwrap(auth_mode)) = None
         THEN Err("InvalidProfileName", AuthModeError(Unwrap(auth_mode)))
    ELSE Ok

\* an add command that names a profile to create: its arguments are well formed
WellFormedAdd(name, tool, auth_mode) ==
    /\ validate_profile_name(name) = Ok
    /\ ParseToolType(tool) # None
    /\ auth_mode # None => ParseAuthMode(Unwrap(auth_mode)) # None

NameCx == <<"c", "x">>

NameKey == <<"k", "e", "y">>

NameWk == <<"w", "k">>

\* tools/mod.rs:18-23: command_name
command_name(tool) == IF tool = "Claude" THEN "claude" ELSE "codex"

\* credentials::get_credential: the keychain holds an OAuth token for work,
\* an API key for key and nothing else
get_credential(name, cred_type) ==
    IF name = NameWork /\ cred_type = "OAuthToken" THEN Some(<<"token", name>>)
    ELSE IF name = NameKey /\ cred_type = "ApiKey" THEN Some(<<"api-key", name>>)
    ELSE None

\* the arm of the match in handle_run
LaunchMode(profile) ==
    IF profile.tool = "Codex" THEN "default"
    ELSE IF profile.auth_mode = "ApiKey" THEN "api_key"
    ELSE "oauth"

\* cli/run.rs:59-67 with core/config.rs:57-61: the record gets its time of
\* use and is saved, the name becomes the last used profile; a failure of
\* either write is printed and nothing more
update_profile_usage(store, cfg, profile, name_lower, saved, noted) ==
    [profiles |-> IF saved
                  THEN save_profile(store, [profile EXCEPT !.last_used = Some("now")])
                  ELSE store,
     config |-> IF noted
                THEN [cfg EXCEPT !.last_used_profile = Some(name_lower)]
                ELSE cfg]

\* core/config.rs:63-81: get_default_profile with RAFCTL_DEFAULT_PROFILE unset
get_default_profile(cfg) ==
    IF cfg.default_profile # None THEN cfg.default_profile
    ELSE cfg.last_used_profile

\* core/credentials.rs:61-80: the two ways get_credential fails
GetCredentialErrors ==
    {Err("KeychainError", "Failed to create keyring entry"),
     Err("KeychainError", "Failed to retrieve credential")}

\* cli/run.rs:39-52, 130-145, 185-217: how the launch of a profile goes on a
\* build for another system than macOS, up to the spawn of the tool; Ok is
\* the tool spawned
LaunchResults(profile) ==
    IF LaunchMode(profile) = "oauth"
    THEN {Err("KeychainError", "OAuth mode only available on macOS")}
    ELSE IF LaunchMode(profile) = "api_key"
    THEN IF profile.api_key # None
         THEN {Err("ProcessSpawn", command_name(profile.tool)), Ok}
         ELSE GetCredentialErrors
              \cup (IF get_credential(profile.name, "ApiKey") = None
                    THEN {Err("NoApiKey", profile.name)}
                    ELSE {Err("ProcessSpawn", command_name(profile.tool)), Ok})
    ELSE {Err("NotAuthenticated", profile.name),
          Err("ProcessSpawn", command_name(profile.tool)), Ok}

\* the API keys typed on the command line
KeyArgs == {"sk-ant-api-1", ""}

\* cli/auth.rs:195-243: the key is stored in the record of a Claude profile
\* in API key mode, unless it is empty
StoreApiKey(store, name_lower, key) ==
    LET profile == Unwrap(load_profile(store, name_lower)) IN
    IF profile.tool # "Claude" \/ profile.auth_mode # "ApiKey" \/ key = ""
    THEN store
    ELSE save_profile(store, [profile EXCEPT !.api_key = Some(key)])

InitProfile ==
    /\ ParseIdle
    /\ WatchIdle
    /\ FnIdle
    /\ CliIdle
    /\ target_os = "linux"
    /\ launch = <<>>
    /\ oauth_lock = None
    /\ lock_file = None
    /\ system_token = None

\* the steps other rafctl processes take while a run or a set-key is under
\* way
MaxOverlap == 1

\* the rafctl processes that have loaded a profile and not yet returned:
\* "run" (handle_run) and "set_key" (handle_set_key)
UnderWay == DOMAIN launch

\* a step of process p: every other process under way sees one more step
CanStep(p) == \A q \in UnderWay \ {p} : launch[q].others < MaxOverlap

Overlapped(p) ==
    [q \in UnderWay |-> IF q = p THEN launch[q]
                        ELSE [launch[q] EXCEPT !.others = @ + 1]]

\* process p goes on as rec
GoesOn(p, rec) ==
    [q \in UnderWay \cup {p} |-> IF q = p THEN rec ELSE Overlapped(p)[q]]

\* process p returns
Leaves(p) ==
    IF UnderWay \ {p} = {} THEN <<>>
    ELSE [q \in UnderWay \ {p} |-> Overlapped(p)[q]]

\* a command of a rafctl process that loads and saves nothing across a wait
OtherCommand ==
    /\ CanStep("other")
    /\ launch' = Leaves("other")
    /\ UNCHANGED <<target_os, oauth_lock, lock_file, system_token>>

\* cli/profile.rs:28-78 handle_add
ProfileAdd ==
    \E args \in AddArgs :
        LET name == args[1]
            tool == args[2]
            auth_mode == args[3]
            res == AddResult(profiles, name, tool, auth_mode)
            auth == IF auth_mode = None THEN "OAuth"
                    ELSE Unwrap(ParseAuthMode(Unwrap(auth_mode)))
        IN  /\ profiles' = IF res = Ok
                           THEN save_profile(profiles,
                                    NewWithAuth(to_lowercase(name),
                                                Unwrap(ParseToolType(tool)), auth))
                           ELSE profiles
            /\ cli_out' = Some(Outcome("profile add", name, res, <<>>))
            /\ added' = IF WellFormedAdd(name, tool, auth_mode)
                        THEN added \cup {to_lowercase(name)}
                        ELSE added
            /\ UNCHANGED config
            /\ OtherCommand
            /\ UNCHANGED <<parseVars, watchVars, fnVars>>

\* cli/profile.rs:278-300 handle_remove
handle_remove(name) ==
    LET name_lower == to_lowercase(name) IN
    /\ IF ~profile_exists(profiles, name_lower)
       THEN /\ cli_out' = Some(Outcome("profile remove", name,
                                       Err("ProfileNotFound", name_lower), <<>>))
            /\ UNCHANGED profiles
       ELSE /\ profiles' = delete_profile(profiles, name_lower)
            /\ cli_out' = Some(Outcome("profile remove", name, Ok, <<>>))
    /\ added' = added \ {name_lower}
    /\ UNCHANGED config
    /\ UNCHANGED <<parseVars, watchVars, fnVars>>

\* rafctl profile remove <name>
ProfileRemove == (\E name \in StorableNames : handle_remove(name)) /\ OtherCommand

\* cli/profile.rs:169-276 handle_show
ProfileShow ==
    \E name \in StorableNames :
        LET name_lower == to_lowercase(name)
            profile == load_profile(profiles, name_lower)
        IN  /\ cli_out' = IF profile = None
                          THEN Some(Outcome("profile show", name,
                                            Err("ProfileNotFound", name_lower), <<>>))
                          ELSE Some(Outcome("profile show", name, Ok,
                                            <<Unwrap(profile).name>>))
            /\ UNCHANGED <<profiles, config, added>>
            /\ OtherCommand
            /\ UNCHANGED <<parseVars, watchVars, fnVars>>

\* cli/profile.rs:80-167 handle_list: the name of every profile that loads
ProfileList ==
    /\ cli_out' = Some(Outcome("profile list", None, Ok,
                        LET names == list_profiles(profiles)
                        IN  [i \in 1..Len(names) |->
                                Unwrap(load_profile(profiles, names[i])).name]))
    /\ UNCHANGED <<profiles, config, added>>
    /\ OtherCommand
    /\ UNCHANGED <<parseVars, watchVars, fnVars>>

\* cli/config.rs:58-72 handle_set_default
ConfigSetDefault ==
    \E profile_name \in StorableNames :
        LET name_lower == to_lowercase(profile_name) IN
        /\ IF ~profile_exists(profiles, name_lower)
           THEN /\ cli_out' = Some(Outcome("config set-default", profile_name,
                                           Err("ProfileNotFound", name_lower), <<>>))
                /\ UNCHANGED config
           ELSE /\ config' = [config EXCEPT !.default_profile = Some(name_lower)]
                /\ cli_out' = Some(Outcome("config set-default", profile_name, Ok, <<>>))
        /\ UNCHANGED <<profiles, added>>
        /\ OtherCommand
        /\ UNCHANGED <<parseVars, watchVars, fnVars>>

\* cli/config.rs:74-88 handle_clear_default
ConfigClearDefault ==
    /\ config' = [config EXCEPT !.default_profile = None]
    /\ cli_out' = Some(Outcome("config clear-default", None, Ok, <<>>))
    /\ UNCHANGED <<profiles, added>>
    /\ OtherCommand
    /\ UNCHANGED <<parseVars, watchVars, fnVars>>

\* cli/auth.rs:186-213: handle_set_key up to the key: the profile is looked up
\* and loaded, and a profile that is not a Claude profile in API key mode
\* ends the command with a message
SetKeyLoads ==
    /\ "set_key" \notin UnderWay
    /\ CanStep("set_key")
    /\ \E name \in StorableNames :
          LET name_lower == to_lowercase(name) IN
          IF ~profile_exists(profiles, name_lower)
          THEN /\ cli_out' = Some(Outcome("auth set-key", name,
                                          Err("ProfileNotFound", name_lower), <<>>))
               /\ launch' = Leaves("set_key")
          ELSE LET profile == Unwrap(load_profile(profiles, name_lower)) IN
               IF profile.tool # "Claude" \/ profile.auth_mode # "ApiKey"
               THEN /\ cli_out' = Some(Outcome("auth set-key", name, Ok, <<>>))
                    /\ launch' = Leaves("set_key")
               ELSE /\ launch' = GoesOn("set_key",
                                    [pc |-> "reading_key", name |-> name,
                                     profile |-> profile, others |-> 0])
                    /\ UNCHANGED cli_out
    /\ UNCHANGED <<profiles, config, added>>
    /\ UNCHANGED <<target_os, oauth_lock, lock_file, system_token>>
    /\ UNCHANGED <<parseVars, watchVars, fnVars>>

\* cli/auth.rs:214-246: the key is there, from the command line or read from
\* stdin; an empty key ends the command, any other is put in the record
\* loaded before and that record is saved
SetKeySaves ==
    /\ "set_key" \in UnderWay
    /\ CanStep("set_key")
    /\ \E key \in KeyArgs :
          /\ profiles' = IF key = "" THEN profiles
                         ELSE save_profile(profiles,
                                  [launch["set_key"].profile EXCEPT !.api_key = Some(key)])
          /\ cli_out' = Some(Outcome("auth set-key", launch["set_key"].name, Ok, <<>>))
    /\ launch' = Leaves("set_key")
    /\ UNCHANGED <<config, added>>
    /\ UNCHANGED <<target_os, oauth_lock, lock_file, system_token>>
    /\ UNCHANGED <<parseVars, watchVars, fnVars>>

\* cli/auth.rs:219-224: read_line on stdin fails
SetKeyReadFails ==
    /\ "set_key" \in UnderWay
    /\ CanStep("set_key")
    /\ cli_out' = Some(Outcome("auth set-key", launch["set_key"].name,
                               Err("ConfigRead", "stdin"), <<>>))
    /\ launch' = Leaves("set_key")
    /\ UNCHANGED <<profiles, config, added>>
    /\ UNCHANGED <<target_os, oauth_lock, lock_file, system_token>>
    /\ UNCHANGED <<parseVars, watchVars, fnVars>>

\* cli/run.rs:21-33, 228-252: handle_run without a profile name: the name is
\* resolved, the profile is looked up and loaded
RunLoads ==
    /\ target_os # "macos"
    /\ "run" \notin UnderWay
    /\ CanStep("run")
    /\ LET name == get_default_profile(config) IN
       IF name = None
       THEN /\ cli_out' = Some(Outcome("run", None, Err("NoDefaultProfile", ""), <<>>))
            /\ launch' = Leaves("run")
       ELSE IF ~profile_exists(profiles, to_lowercase(Unwrap(name)))
       THEN /\ cli_out' = Some(Outcome("run", None,
                                Err("ProfileNotFound", to_lowercase(Unwrap(name))), <<>>))
            /\ launch' = Leaves("run")
       ELSE LET name_lower == to_lowercase(Unwrap(name)) IN
            /\ launch' = GoesOn("run",
                            [pc |-> "checking", name |-> name_lower,
                             profile |-> Unwrap(load_profile(profiles, name_lower)),
                             others |-> 0])
            /\ UNCHANGED cli_out
    /\ UNCHANGED <<profiles, config, added>>
    /\ UNCHANGED <<target_os, oauth_lock, lock_file, system_token>>
    /\ UNCHANGED <<parseVars, watchVars, fnVars>>

\* cli/run.rs:35-52: the tool has answered --version or has not, and the
\* profile loaded before is launched, on a build for another system than
\* macOS, up to an early return or to the spawn of the tool, for which
\* handle_run then waits
RunLaunches ==
    /\ "run" \in UnderWay
    /\ launch["run"].pc = "checking"
    /\ CanStep("run")
    /\ \E res \in {Err("ToolNotFound", command_name(launch["run"].profile.tool))}
                     \cup LaunchResults(launch["run"].profile) :
          IF res = Ok
          THEN /\ launch' = GoesOn("run", [launch["run"] EXCEPT !.pc = "running"])
               /\ UNCHANGED cli_out
          ELSE /\ cli_out' = Some(Outcome("run", None, res, <<>>))
               /\ launch' = Leaves("run")
    /\ UNCHANGED <<profiles, config, added>>
    /\ UNCHANGED <<target_os, oauth_lock, lock_file, system_token>>
    /\ UNCHANGED <<parseVars, watchVars, fnVars>>

\* cli/run.rs:120-121, 54-56: the tool exits, update_profile_usage saves the
\* record loaded before the launch, and handle_run returns the exit code
RunEnds ==
    /\ "run" \in UnderWay
    /\ launch["run"].pc = "running"
    /\ CanStep("run")
    /\ \E saved \in BOOLEAN, noted \in BOOLEAN :
          LET usage == update_profile_usage(profiles, config, launch["run"].profile,
                                            launch["run"].name, saved, noted)
          IN  /\ profiles' = usage.profiles
              /\ config' = usage.config
    /\ cli_out' = Some(Outcome("run", None, Ok, <<>>))
    /\ launch' = Leaves("run")
    /\ UNCHANGED added
    /\ UNCHANGED <<target_os, oauth_lock, lock_file, system_token>>
    /\ UNCHANGED <<parseVars, watchVars, fnVars>>

NextProfile ==
    \/ ProfileAdd
    \/ ProfileRemove
    \/ ProfileShow
    \/ ProfileList
    \/ ConfigSetDefault
    \/ ConfigClearDefault
    \/ SetKeyLoads
    \/ SetKeySaves
    \/ SetKeyReadFails
    \/ RunLoads
    \/ RunLaunches
    \/ RunEnds

SpecProfile == InitProfile /\ [][NextProfile]_vars

\* the last command was cmd
Ran(cmd) == cli_out # None /\ Unwrap(cli_out).cmd = cmd

\* the last command failed and its message holds the text
FailedWith(text) ==
    /\ cli_out # None
    /\ Len(Unwrap(cli_out).result) = 3
    /\ ErrorText(Unwrap(cli_out).result[2]) = text

C30_DefaultNamesStoredProfile ==
    config.default_profile # None =>
        profile_exists(profiles, Unwrap(config.default_profile))

----------------------------------------------------------------------------
(* Further claims about parse_transcript, checked under SpecParse *)

\* the record whose tool_use block opened the call that is open under id x
OpenedBy(ls, x) ==
    ls[LastOf({p \in UsesOf(ls, x) : IsToolUse(BlockAt(ls, p))})[1]]

\* C23, on the step that closes a call: a record whose only block is the
\* tool_result of an open call appends that call with a duration exactly when
\* the record that opened it and the record that closes it both carry a valid
\* timestamp; the duration is the difference, or 0 when the result is earlier.
C23_DurationOfClosedCall ==
    StepReadsLine =>
        LET line == Last(consumed')
            bs == BlocksOf(line)
        IN  (Len(bs) = 1 /\ IsResult(bs[1]) /\ Unwrap(bs[1].tool_use_id) \in DOMAIN pending_tools)
            => LET x == Unwrap(bs[1].tool_use_id)
                   start == EntryTimestamp(OpenedBy(consumed, x))
                   end == EntryTimestamp(line)
                   call == Last(tool_calls')
               IN  /\ Len(tool_calls') = Len(tool_calls) + 1
                   /\ call.id = x
                   /\ IsSome(call.duration_ms) <=> (IsSome(start) /\ IsSome(end))
                   /\ IsSome(call.duration_ms) =>
                        /\ Unwrap(call.duration_ms) >= 0
                        /\ Unwrap(end) >= Unwrap(start)
                              => Unwrap(call.duration_ms) = Unwrap(end) - Unwrap(start)
                        /\ Unwrap(end) < Unwrap(start) => Unwrap(call.duration_ms) = 0

\* C23, on every list of calls: no duration is negative
C23_NeverNegative ==
    \A k \in 1..Len(tool_calls) :
        IsSome(tool_calls[k].duration_ms) => Unwrap(tool_calls[k].duration_ms) >= 0

(* C23: for every ToolCall closed by a matching tool_result, duration is      *)
(* present exactly when both the invocation record and the result record     *)
(* carried a valid timestamp, and it is never negative: when the result's    *)
(* timestamp is earlier than the invocation's, the duration is 0.            *)
C23_Duration == [][C23_DurationOfClosedCall]_vars /\ []C23_NeverNegative

\* UseReadLate at +2500 ms closed by ResultErr at +1000 ms: duration 0
C23_Witness ==
    /\ consumed = <<UseReadLate, ResultErr>>
    /\ Len(tool_calls) = 1
    /\ tool_calls[1].id = "t1"
    /\ tool_calls[1].duration_ms = Some(0)

FirstOf(ps) == CHOOSE p \in ps : \A q \in ps : q = p \/ Before(p, q)

\* the positions of the tool_use blocks that are not sub-agent dispatches
ToolUses(ls) == {p \in Positions(ls) : IsUse(BlockAt(ls, p)) /\ IsToolUse(BlockAt(ls, p))}

\* C24, on the value returned: of two tool_use blocks with id x and no
\* tool_result for x before the second, only the second is in the list, open
\* or closed by the first tool_result that follows; both are counted.
C24_LaterReplacesEarlier ==
    (ppc = "done" /\ IsSome(result)) =>
        \A x \in IdsIn(consumed) :
            LET uses == {p \in UsesOf(consumed, x) : IsToolUse(BlockAt(consumed, p))}
                ress == ResultsOf(consumed, x)
                calls == Unwrap(result).tool_calls
            IN  (Cardinality(uses) = 2 /\ \A r \in ress : Before(LastOf(uses), r))
                => LET later == LastOf(uses)
                       start == EntryTimestamp(consumed[later[1]])
                   IN  /\ Cardinality(CallsWithId(calls, x)) = 1
                       /\ \A k \in CallsWithId(calls, x) :
                            /\ calls[k].name = UnwrapOrDefault(BlockAt(consumed, later).name)
                            /\ calls[k].timestamp = start
                            /\ ress = {} => /\ calls[k].duration_ms = None
                                            /\ calls[k].is_error = FALSE
                            /\ ress # {} =>
                                 LET end == EntryTimestamp(consumed[FirstOf(ress)[1]]) IN
                                 /\ calls[k].is_error =
                                       (BlockAt(consumed, FirstOf(ress)).is_error = Some(TRUE))
                                 /\ IsSome(calls[k].duration_ms) <=> (IsSome(start) /\ IsSome(end))
                       /\ Unwrap(result).summary.tool_calls = Cardinality(ToolUses(consumed))
                       /\ SumValues(Unwrap(result).tool_breakdown) = Cardinality(ToolUses(consumed))
                       /\ \A u \in uses :
                            UnwrapOrDefault(BlockAt(consumed, u).name)
                                \in DOMAIN Unwrap(result).tool_breakdown
                       /\ Len(calls) < Unwrap(result).summary.tool_calls

\* C24, on the step: a tool_use block with the id of an open call is read
\* like any other, the open map keeps one entry for the id
C24_ReplacesWithoutError ==
    StepReadsLine =>
        LET bs == BlocksOf(Last(consumed')) IN
        (Len(bs) = 1 /\ IsToolUse(bs[1]) /\ UnwrapOrDefault(bs[1].id) \in DOMAIN pending_tools)
            => /\ DOMAIN pending_tools' = DOMAIN pending_tools
               /\ pending_tools'[UnwrapOrDefault(bs[1].id)].name = UnwrapOrDefault(bs[1].name)
               /\ pending_tools'[UnwrapOrDefault(bs[1].id)].timestamp
                     = EntryTimestamp(Last(consumed'))
               /\ tool_calls' = tool_calls
               /\ summary'.tool_calls = summary.tool_calls + 1

(* C24: a second tool_use block with the id of a still-open invocation       *)
(* replaces the open entry without error: a later tool_result closes the     *)
(* later invocation only, the earlier one never appears in the returned      *)
(* list, while tool_calls and tool_breakdown still count both, so the list   *)
(* holds fewer entries than summary.tool_calls.                              *)
C24_SecondUseReplacesOpen ==
    []C24_LaterReplacesEarlier /\ [][C24_ReplacesWithoutError]_vars

\* Read t1 at +0 ms, Edit t1 at +2500 ms, then the result for t1 at +2500 ms:
\* one call, Edit, 0 ms, and two calls counted
C24_Witness ==
    /\ ppc = "done" /\ IsSome(result)
    /\ consumed = <<UseRead, UseReadLate, ResultOk>>
    /\ Len(Unwrap(result).tool_calls) = 1
    /\ Unwrap(result).tool_calls[1].name = "Edit"
    /\ Unwrap(result).tool_calls[1].duration_ms = Some(0)
    /\ Unwrap(result).summary.tool_calls = 2
    /\ Unwrap(result).tool_breakdown = [n \in {"Read", "Edit"} |-> 1]

----------------------------------------------------------------------------
(* Further claims about watch_session_file, checked under SpecWatch *)

\* the invocation ids of the blocks of a decoded line: the id of a tool_use
\* block, the tool_use_id of a tool_result block
InvocationIds(entry) ==
    {Unwrap(BlocksOf(entry)[k].id) :
        k \in {j \in 1..Len(BlocksOf(entry)) :
                  IsUse(BlocksOf(entry)[j]) /\ IsSome(BlocksOf(entry)[j].id)}}
    \cup
    {Unwrap(BlocksOf(entry)[k].tool_use_id) :
        k \in {j \in 1..Len(BlocksOf(entry)) : IsResult(BlocksOf(entry)[j])}}

\* bootstrapping is over and the file is as bootstrapping read it: "\n"
\* terminators, whole lines, nothing appended since
JustBooted ==
    /\ wpc = "booted"
    /\ ~crlf
    /\ file # <<>>
    /\ Last(file) = NL
    /\ offset = Len(file)

(* C25: at the end of bootstrapping the seen-id set holds the invocation id  *)
(* of every tool_use block and of every tool_result block found in any       *)
(* decodable line of the file, at whatever position of the content array,    *)
(* and nothing has been emitted for those lines.                             *)
C25_BootstrapSeesEveryId ==
    JustBooted =>
        /\ emitted = <<>>
        /\ \A k \in 1..Len(LinesFrom(file, 0)) :
              LET entry == from_str(LinesFrom(file, 0)[k]) IN
              IsSome(entry) => InvocationIds(Unwrap(entry)) \subseteq seen_ids

(* C26: the resume cursor at the end of bootstrapping equals the number of   *)
(* bytes consumed and never exceeds the length of the file, whether or not   *)
(* the last line ends with a newline and whatever the line terminator; while *)
(* watching the cursor never decreases.                                      *)
C26_CursorWithinFile ==
    wpc = "booted" => offset <= Len(file)

(* C27: an unrecoverable IO error while the watched file is read during      *)
(* Watching moves the engine to Stopped: read_new_lines reports the error,   *)
(* watch_loop returns it and no later notification is processed.             *)
C27_ReadErrorStopsTheEngine ==
    io_error => wpc \in {"failed", "stopped"}

\* the engine is blocked in recv_timeout with no event queued: only a further
\* write to the file can make it read again
WaitingForAWrite ==
    /\ wpc = "watching"
    /\ chan = 0
    /\ ~io_error

(* C28: every complete record appended after bootstrapping has read to the   *)
(* end of the file is eventually emitted, also a record appended between the *)
(* end of bootstrapping and the registration of the watch, even when no      *)
(* further write follows it: whenever the engine waits for a write, no       *)
(* complete record that it would emit lies unread behind the cursor.         *)
C28_NoRecordLeftUnread ==
    (WaitingForAWrite /\ ~crlf /\ file # <<>> /\ Last(file) = NL) =>
        \A k \in 1..Len(LinesFrom(file, offset)) :
            LET entry == from_str(LinesFrom(file, offset)[k]) IN
            IsSome(entry) =>
                /\ IsSome(extract_tool_id(Unwrap(entry)))
                /\ Unwrap(extract_tool_id(Unwrap(entry))) \in seen_ids

----------------------------------------------------------------------------
(* rafctl run: handle_run, cli/run.rs:21-57, from the resolved profile name  *)
(* on, called by several rafctl processes at once while profiles are removed *)

\* the rafctl processes that run at the same time
MaxLaunchers == 2

Launchers == 1..MaxLaunchers

\* the profiles stored when the runs begin: two Claude profiles in OAuth
\* mode, a Codex profile, a Claude profile in API key mode whose key is in
\* the keychain and one whose key auth set-key has stored in its record
LaunchStore ==
    StoreApiKey(
        save_profile(save_profile(save_profile(save_profile(save_profile(<<>>,
            NewWithAuth(NameWork, "Claude", "OAuth")),
            NewWithAuth(NameDev, "Claude", "OAuth")),
            NewWithAuth(NameCx, "Codex", "OAuth")),
            NewWithAuth(NameKey, "Claude", "ApiKey")),
            NewWithAuth(NameWk, "Claude", "ApiKey")),
        NameWk, "sk-ant-api-1")

\* the names handle_run resolves
LaunchProfiles == DOMAIN LaunchStore

\* the profile removed while runs are under way
RemovedDuringRun == {NameWork}

\* a run that has resolved its profile name and done nothing else
Launching(name) ==
    [pc |-> "start", name |-> name, profile |-> None, ret |-> None,
     wrote_token |-> FALSE, spawned |-> FALSE]

\* a lock that is granted whoever holds it
try_lock_exclusive_AlwaysGranted(holder, p) == TRUE

\* fs2 try_lock_exclusive (flock LOCK_EX | LOCK_NB) by process p: granted
\* unless another open file description holds the lock
try_lock_exclusive(holder, p) == holder = None

\* the lock file is closed when launch_with_oauth returns: the lock p holds
\* is released
DropLockFile(holder, p) == IF holder = Some(p) THEN None ELSE holder

\* write at offset 0 of a file that is not truncated: the bytes beyond the
\* written ones stay
WriteAtStart(content, data) ==
    IF Len(content) > Len(data)
    THEN data \o SubSeq(content, Len(data) + 1, Len(content))
    ELSE data

\* handle_run of process p returns ret
Returned(p, ret) ==
    /\ launch' = [launch EXCEPT ![p].pc = "returned", ![p].ret = Some(ret)]
    /\ oauth_lock' = DropLockFile(oauth_lock, p)

\* the record the run loaded
Loaded(p) == Unwrap(launch[p].profile)

InitLaunch ==
    /\ ParseIdle
    /\ WatchIdle
    /\ FnIdle
    /\ profiles = LaunchStore
    /\ config = [default_profile |-> None, last_used_profile |-> None]
    /\ cli_out = None
    /\ added = DOMAIN LaunchStore
    /\ target_os \in {"macos", "linux"}
    /\ launch \in [Launchers -> {Launching(n) : n \in LaunchProfiles}]
    /\ oauth_lock = None
    /\ lock_file = None
    /\ system_token = None

\* cli/run.rs:23-37: the profile is looked up and loaded, the tool is there
LoadProfile(p) ==
    LET name_lower == to_lowercase(launch[p].name) IN
    /\ launch[p].pc = "start"
    /\ IF ~profile_exists(profiles, name_lower)
       THEN Returned(p, Err("ProfileNotFound", name_lower))
       ELSE /\ launch' = [launch EXCEPT
                   ![p].pc = LaunchMode(Unwrap(load_profile(profiles, name_lower))),
                   ![p].profile = load_profile(profiles, name_lower)]
            /\ UNCHANGED oauth_lock
    /\ UNCHANGED <<target_os, lock_file, system_token>>
    /\ UNCHANGED <<parseVars, watchVars, fnVars, cliVars>>

\* cli/run.rs:35 with tools/mod.rs:56-67: the tool is not installed
CheckToolFails(p) ==
    LET name_lower == to_lowercase(launch[p].name) IN
    /\ launch[p].pc = "start"
    /\ profile_exists(profiles, name_lower)
    /\ Returned(p, Err("ToolNotFound",
                       command_name(Unwrap(load_profile(profiles, name_lower)).tool)))
    /\ UNCHANGED <<target_os, lock_file, system_token>>
    /\ UNCHANGED <<parseVars, watchVars, fnVars, cliVars>>

\* cli/run.rs:132-139: the API key is the one in the record of the profile
\* or, when there is none, the one read from the keychain
GetApiKey(p) ==
    /\ launch[p].pc = "api_key"
    /\ IF Loaded(p).api_key = None /\ get_credential(Loaded(p).name, "ApiKey") = None
       THEN Returned(p, Err("NoApiKey", Loaded(p).name))
       ELSE /\ launch' = [launch EXCEPT ![p].pc = "has_api_key"]
            /\ UNCHANGED oauth_lock
    /\ UNCHANGED <<target_os, lock_file, system_token>>
    /\ UNCHANGED <<parseVars, watchVars, fnVars, cliVars>>

\* cli/run.rs:185-200: the build for another system than macOS
LaunchUnsupported(p) ==
    /\ target_os # "macos"
    /\ launch[p].pc = "oauth"
    /\ Returned(p, Err("KeychainError", "OAuth mode only available on macOS"))
    /\ UNCHANGED <<target_os, lock_file, system_token>>
    /\ UNCHANGED <<parseVars, watchVars, fnVars, cliVars>>

\* cli/run.rs:152-168: oauth.lock is created or truncated
OpenLockFile(p) ==
    /\ target_os = "macos"
    /\ launch[p].pc = "oauth"
    /\ lock_file' = Some(<<>>)
    /\ launch' = [launch EXCEPT ![p].pc = "opened"]
    /\ UNCHANGED <<target_os, oauth_lock, system_token>>
    /\ UNCHANGED <<parseVars, watchVars, fnVars, cliVars>>

\* cli/run.rs:152-168: create_dir_all fails and the error names the config
\* directory, or open fails and the error names the lock file
OpenLockFileFails(p) ==
    /\ target_os = "macos"
    /\ launch[p].pc = "oauth"
    /\ \E path \in {"~/.rafctl", "~/.rafctl/oauth.lock"} :
          Returned(p, Err("ConfigWrite", path))
    /\ UNCHANGED <<target_os, lock_file, system_token>>
    /\ UNCHANGED <<parseVars, watchVars, fnVars, cliVars>>

\* cli/run.rs:170-176: try_lock_exclusive, then writeln! puts the profile
\* name and a line feed at the start of the file opened before; the file is
\* not truncated again, and a write that fails is ignored
TryLock(p) ==
    /\ launch[p].pc = "opened"
    /\ IF try_lock_exclusive(oauth_lock, p)
       THEN /\ oauth_lock' = Some(p)
            /\ \E written \in BOOLEAN :
                  lock_file' = IF written /\ IsSome(lock_file)
                               THEN Some(WriteAtStart(Unwrap(lock_file),
                                                      Loaded(p).name \o <<"\n">>))
                               ELSE lock_file
            /\ launch' = [launch EXCEPT ![p].pc = "locked"]
       ELSE /\ Returned(p, Err("OAuthConflict", ""))
            /\ UNCHANGED lock_file
    /\ UNCHANGED <<target_os, system_token>>
    /\ UNCHANGED <<parseVars, watchVars, fnVars, cliVars>>

\* cli/run.rs:178-179: the token of the profile is read from the keychain
GetCredential(p) ==
    /\ launch[p].pc = "locked"
    /\ IF get_credential(Loaded(p).name, "OAuthToken") = None
       THEN Returned(p, Err("NotAuthenticated", Loaded(p).name))
       ELSE /\ launch' = [launch EXCEPT ![p].pc = "has_token"]
            /\ UNCHANGED oauth_lock
    /\ UNCHANGED <<target_os, lock_file, system_token>>
    /\ UNCHANGED <<parseVars, watchVars, fnVars, cliVars>>

\* cli/run.rs:137, 178 with core/credentials.rs:66-78: get_credential fails
GetCredentialFails(p) ==
    /\ launch[p].pc \in {"locked", "api_key"}
    /\ launch[p].pc = "api_key" => Loaded(p).api_key = None
    /\ \E ret \in GetCredentialErrors : Returned(p, ret)
    /\ UNCHANGED <<target_os, lock_file, system_token>>
    /\ UNCHANGED <<parseVars, watchVars, fnVars, cliVars>>

\* cli/run.rs:181 with core/credentials.rs:133-154: write_claude_system_token
WriteSystemToken(p) ==
    /\ launch[p].pc = "has_token"
    /\ system_token' = get_credential(Loaded(p).name, "OAuthToken")
    /\ launch' = [launch EXCEPT ![p].pc = "token_written", ![p].wrote_token = TRUE]
    /\ UNCHANGED <<target_os, oauth_lock, lock_file>>
    /\ UNCHANGED <<parseVars, watchVars, fnVars, cliVars>>

\* core/credentials.rs:133-154: write_claude_system_token fails: at the
\* first Entry::new (137-139), with the token that was there kept; at the
\* second Entry::new (145-147) or at set_password (149-151), with the token
\* that was there deleted (142), or kept when the delete failed
WriteSystemTokenFails(p) ==
    /\ launch[p].pc = "has_token"
    /\ \E what \in {"Failed to access Claude keychain",
                     "Failed to create Claude keychain entry",
                     "Failed to write Claude token"},
          left \in {system_token, None} :
          /\ what = "Failed to access Claude keychain" => left = system_token
          /\ Returned(p, Err("KeychainError", what))
          /\ system_token' = left
    /\ UNCHANGED <<target_os, lock_file>>
    /\ UNCHANGED <<parseVars, watchVars, fnVars, cliVars>>

\* cli/run.rs:144, 183, 202-217, 77-121: the tool is spawned and waited for
SpawnTool(p) ==
    /\ launch[p].pc \in {"has_api_key", "token_written", "default"}
    /\ launch' = [launch EXCEPT ![p].pc = "running", ![p].spawned = TRUE]
    /\ UNCHANGED <<target_os, oauth_lock, lock_file, system_token>>
    /\ UNCHANGED <<parseVars, watchVars, fnVars, cliVars>>

\* cli/run.rs:202-214, 123-128: launch_default finds no credential file, or
\* the tool cannot be spawned
SpawnToolFails(p) ==
    /\ launch[p].pc \in {"has_api_key", "token_written", "default"}
    /\ \E ret \in {Err("NotAuthenticated", Loaded(p).name),
                   Err("ProcessSpawn", command_name(Loaded(p).tool))} :
          /\ ret[2] = "NotAuthenticated" => launch[p].pc # "has_api_key"
          /\ Returned(p, ret)
    /\ UNCHANGED <<target_os, lock_file, system_token>>
    /\ UNCHANGED <<parseVars, watchVars, fnVars, cliVars>>

\* cli/run.rs:120-121, 39-52: the tool exits, the launch function returns
\* its code to handle_run and the lock file is closed
ToolExits(p) ==
    /\ launch[p].pc = "running"
    /\ launch' = [launch EXCEPT ![p].pc = "launched"]
    /\ oauth_lock' = DropLockFile(oauth_lock, p)
    /\ UNCHANGED <<target_os, lock_file, system_token>>
    /\ UNCHANGED <<parseVars, watchVars, fnVars, cliVars>>

\* cli/run.rs:54-56: update_profile_usage, then handle_run returns the code
UpdateProfileUsage(p) ==
    /\ launch[p].pc = "launched"
    /\ \E saved \in BOOLEAN, noted \in BOOLEAN :
          LET usage == update_profile_usage(profiles, config, Loaded(p),
                           to_lowercase(launch[p].name), saved, noted)
          IN  /\ profiles' = usage.profiles
              /\ config' = usage.config
    /\ Returned(p, Ok)
    /\ UNCHANGED <<cli_out, added>>
    /\ UNCHANGED <<target_os, lock_file, system_token>>
    /\ UNCHANGED <<parseVars, watchVars, fnVars>>

\* rafctl profile remove <name> by another rafctl process while runs are
\* under way
RemoveDuringRun ==
    /\ \E name \in RemovedDuringRun : handle_remove(name)
    /\ UNCHANGED launchVars

NextLaunch ==
    \/ \E p \in Launchers :
        \/ LoadProfile(p)
        \/ CheckToolFails(p)
        \/ GetApiKey(p)
        \/ LaunchUnsupported(p)
        \/ OpenLockFile(p)
        \/ OpenLockFileFails(p)
        \/ TryLock(p)
        \/ GetCredential(p)
        \/ GetCredentialFails(p)
        \/ WriteSystemToken(p)
        \/ WriteSystemTokenFails(p)
        \/ SpawnTool(p)
        \/ SpawnToolFails(p)
        \/ ToolExits(p)
        \/ UpdateProfileUsage(p)
    \/ RemoveDuringRun

SpecLaunch == InitLaunch /\ [][NextLaunch]_vars

\* an OAuth launch is in progress: past the lock and launch_with_oauth not
\* yet returned
InProgress(p) ==
    /\ launch[p].pc \in {"locked", "has_token", "token_written", "running"}
    /\ LaunchMode(Loaded(p)) = "oauth"

\* C29: at most one launch is in progress
C29_AtMostOneInProgress ==
    Cardinality({p \in Launchers : InProgress(p)}) <= 1

\* C29: the lock is held from before the token is written until the tool has
\* exited, and on no exit path after the return
C29_LockHeldExactlyInProgress ==
    \A p \in Launchers :
        /\ InProgress(p) <=> oauth_lock = Some(p)
        /\ (launch[p].wrote_token
               \/ (launch[p].spawned /\ LaunchMode(Loaded(p)) = "oauth")) =>
              (InProgress(p) \/ launch[p].pc \in {"launched", "returned"})
        /\ launch[p].pc \in {"launched", "returned"} => oauth_lock # Some(p)

\* C29: a launch that meets the lock held fails with OAuthConflict, and a
\* launch that failed so wrote no token and spawned no tool
C29_ConflictDoesNothing ==
    /\ \A p \in Launchers :
          launch[p].ret = Some(Err("OAuthConflict", "")) =>
              ~launch[p].wrote_token /\ ~launch[p].spawned
    /\ \A p \in Launchers :
          (launch[p].pc = "opened" /\ \E q \in Launchers \ {p} : InProgress(q))
              => ~ENABLED (TryLock(p) /\ launch'[p].pc = "locked")

\* C29: in OAuth mode the token is written and the tool spawned under the
\* lock only
C29_TokenUnderLock ==
    \A p \in Launchers :
        (/\ IsSome(launch[p].profile)
         /\ LaunchMode(Loaded(p)) = "oauth"
         /\ \/ launch'[p].wrote_token # launch[p].wrote_token
            \/ launch'[p].spawned # launch[p].spawned)
        => oauth_lock = Some(p) /\ oauth_lock' = Some(p)

(* C29: at most one OAuth-mode launch is in progress at any time:            *)
(* launch_with_oauth takes an exclusive lock on oauth.lock before it writes  *)
(* the system token and holds it until the launched tool exits; a second     *)
(* concurrent OAuth launch fails with OAuthConflict without writing the      *)
(* system token or spawning the tool, and the lock is released on every exit *)
(* path.                                                                     *)
C29_OneOAuthLaunch ==
    /\ []C29_AtMostOneInProgress
    /\ []C29_LockHeldExactlyInProgress
    /\ []C29_ConflictDoesNothing
    /\ [][C29_TokenUnderLock]_vars

\* the tool of the first launch runs; the second launch has failed with
\* OAuthConflict, wrote no token and spawned nothing
C29_Witness ==
    /\ target_os = "macos"
    /\ launch[1].pc = "running"
    /\ Loaded(1).name = NameWork
    /\ oauth_lock = Some(1)
    /\ system_token = get_credential(NameWork, "OAuthToken")
    /\ launch[2].pc = "returned"
    /\ launch[2].name \in {NameWork, NameDev}
    /\ launch[2].ret = Some(Err("OAuthConflict", ""))
    /\ ~launch[2].wrote_token
    /\ ~launch[2].spawned

====
